---- MODULE Spec2Model ----
(***************************************************************************)
(* A model of src/time_zone_format.cc (cctz): format() and parse() and     *)
(* their helpers.  Text is a sequence of one-character strings; positions  *)
(* in a char_range are 1-based indexes, with end == Len + 1 the sentinel.  *)
(* 64-bit quantities that do not fit TLC's integers (femtoseconds, *)
(* Unix seconds) are carried as sign + decimal digits ("wide" values), on  *)
(* which v % 10, v / 10 and the powers of ten of kExp10 are exact.         *)
(***************************************************************************)
EXTENDS Integers, Sequences, FiniteSets, TLC

\* ------------------------------------------------------------------ text

NUL == "\\0"

kDigits == <<"0", "1", "2", "3", "4", "5", "6", "7", "8", "9">>

IsDigit(c) == \E i \in 1..10 : kDigits[i] = c

\* *cp - '0' for a digit character
DigitVal(c) == (CHOOSE i \in 1..10 : kDigits[i] = c) - 1

IsSpace(c) == c \in {" ", "\t", "\n"}

RECURSIVE Join(_)
Join(s) == IF s = <<>> THEN "" ELSE Head(s) \o Join(Tail(s))

RECURSIVE Repeat(_, _)
Repeat(c, n) == IF n <= 0 THEN <<>> ELSE <<c>> \o Repeat(c, n - 1)

\* C++ integer division truncates toward zero
CDiv(a, b) ==
  IF a >= 0 \/ a % b = 0 THEN a \div b ELSE (a \div b) + 1

\* ----------------------------------------------------------- wide values

\* A wide value: [neg |-> BOOLEAN, mag |-> digits, most significant first,
\* no leading zero, <<0>> for zero].
RECURSIVE NatDigits(_)
NatDigits(n) == IF n < 10 THEN <<n>> ELSE Append(NatDigits(n \div 10), n % 10)

Wide(n) == [neg |-> n < 0, mag |-> NatDigits(IF n < 0 THEN -n ELSE n)]

RECURSIVE StripZeros(_)
StripZeros(d) ==
  IF Len(d) > 1 /\ Head(d) = 0 THEN StripZeros(Tail(d)) ELSE d

WideOfDigits(d) == [neg |-> FALSE, mag |-> StripZeros(IF d = <<>> THEN <<0>> ELSE d)]

WIsZero(v) == v.mag = <<0>>

\* v % 10 and v / 10 of a non-negative wide value
WMod10(v) == v.mag[Len(v.mag)]
WDiv10(v) ==
  [v EXCEPT !.mag = IF Len(v.mag) = 1 THEN <<0>> ELSE SubSeq(v.mag, 1, Len(v.mag) - 1)]

kDigits10_64 == 18

\* v * kExp10[k] and v / kExp10[k] for a non-negative wide value
WMulExp10(v, k) ==
  IF WIsZero(v) THEN v ELSE [v EXCEPT !.mag = v.mag \o Repeat(0, k)]
WDivExp10(v, k) ==
  IF Len(v.mag) <= k THEN [v EXCEPT !.mag = <<0>>]
  ELSE [v EXCEPT !.mag = SubSeq(v.mag, 1, Len(v.mag) - k)]

\* ------------------------------------------------------ integer encoder

\* the do { --width; *--ep = kDigits[v % 10]; } while (v /= 10); loop
RECURSIVE Format64Digits(_, _, _)
Format64Digits(v, width, acc) ==
  LET acc1 == <<kDigits[WMod10(v) + 1]>> \o acc
      v1 == WDiv10(v)
  IN IF WIsZero(v1) THEN [width |-> width - 1, text |-> acc1]
     ELSE Format64Digits(v1, width - 1, acc1)

\* Format64 without the while (--width >= 0) *--ep = '0' padding
Format64NoPad(width, v) ==
  LET d == Format64Digits([v EXCEPT !.neg = FALSE], width, <<>>)
  IN IF v.neg THEN <<"-">> \o d.text ELSE d.text

\* char* Format64(char* ep, int width, int_fast64_t v): the text [bp, ep)
Format64(width, v) ==
  LET w0 == IF v.neg THEN width - 1 ELSE width
      d == Format64Digits([v EXCEPT !.neg = FALSE], w0, <<>>)
      padded == Repeat("0", d.width) \o d.text
  IN IF v.neg THEN <<"-">> \o padded ELSE padded

\* char* Format02d(char* ep, int v)
Format02d(v) == <<kDigits[((v \div 10) % 10) + 1], kDigits[(v % 10) + 1]>>

\* mode[i] of a C string literal: the terminator past its last character
ModeAt(mode, i) == IF i + 1 <= Len(mode) THEN mode[i + 1] ELSE NUL

\* the seconds rendered whenever there is a separator and they are not zero
OffsetShowsAnySeconds(mode, seconds) == ModeAt(mode, 0) # NUL /\ seconds # 0

\* ext && (!ccc || seconds != 0): whether FormatOffset renders the seconds
OffsetShowsSeconds(mode, seconds) ==
  LET ext == ModeAt(mode, 0) # NUL /\ ModeAt(mode, 1) = "*"
      ccc == ext /\ ModeAt(mode, 2) = ":"
  IN ext /\ (~ccc \/ seconds # 0)

\* the sign of the offset itself, whatever is rendered
OffsetSignKept(neg, showSec, hours, minutes) == IF neg THEN "-" ELSE "+"

\* char sign: '-' for a negative offset, put back to '+' when the seconds are
\* not rendered and hours == 0 && minutes == 0
OffsetSign(neg, showSec, hours, minutes) ==
  IF neg /\ ~(~showSec /\ hours = 0 /\ minutes = 0) THEN "-" ELSE "+"

\* char* FormatOffset(char* ep, int offset, const char* mode)
FormatOffset(offset, mode) ==
  LET neg == offset < 0
      off1 == IF neg THEN -offset ELSE offset
      seconds == off1 % 60
      minutes == (off1 \div 60) % 60
      hours == (off1 \div 60) \div 60
      sep == ModeAt(mode, 0)
      ext == sep # NUL /\ ModeAt(mode, 1) = "*"
      ccc == ext /\ ModeAt(mode, 2) = ":"
      showSec == OffsetShowsSeconds(mode, seconds)
      sign == OffsetSign(neg, showSec, hours, minutes)
      secTxt == IF showSec THEN <<sep>> \o Format02d(seconds) ELSE <<>>
      minTxt == IF ~ccc \/ minutes # 0 \/ seconds # 0
                THEN (IF sep # NUL THEN <<sep>> ELSE <<>>) \o Format02d(minutes)
                ELSE <<>>
  IN <<sign>> \o Format02d(hours) \o minTxt \o secTxt

\* ------------------------------------------------------------ char_range

\* A char_range over memory: the characters of the window, and the bytes
\* that happen to follow it (read only by a dereference at or past end).
Buf(s, tail) == [s |-> s, tail |-> tail]

RangeEnd(b) == Len(b.s) + 1

\* *p for a cursor p
At(b, p) ==
  IF p <= Len(b.s) THEN b.s[p]
  ELSE IF p - Len(b.s) <= Len(b.tail) THEN b.tail[p - Len(b.s)]
  ELSE NUL

\* char_range::consume_prefix(char) / starts_with(char) on [begin, end)
StartsWithChar(b, begin, end, c) == begin # end /\ At(b, begin) = c

\* char_range::starts_with(string) on [begin, end)
StartsWithStr(b, begin, end, str) ==
  /\ end - begin >= Len(str)
  /\ \A i \in 1..Len(str) : At(b, begin + i - 1) = str[i]

\* char_range::consume_leading_spaces(): the cursor after the spaces
RECURSIVE SkipSpaces(_, _, _)
SkipSpaces(b, begin, end) ==
  IF begin # end /\ IsSpace(At(b, begin)) THEN SkipSpaces(b, begin + 1, end)
  ELSE begin

\* ------------------------------------------------------ integer decoder

IntMin == -2147483647 - 1
IntMax == 2147483647

\* value < kmin / 10, for T = int; for the 64-bit types every value the
\* model's bounded inputs can accumulate lies above kmin / 10
LtKminDiv10(T, value) == IF T = "int" THEN value < CDiv(IntMin, 10) ELSE FALSE

\* value < kmin + d
LtKminPlus(T, value, d) == IF T = "int" THEN value < IntMin + d ELSE FALSE

IsKmin(T, value) == IF T = "int" THEN value = IntMin ELSE FALSE

\* the while (cp != s.end) loop of ParseInt; value accumulates negatively
RECURSIVE ParseIntLoop(_, _, _, _, _, _)
ParseIntLoop(b, cp, end, width, value, T) ==
  IF cp = end \/ ~IsDigit(At(b, cp)) THEN [ok |-> TRUE, cp |-> cp, value |-> value]
  ELSE LET d == DigitVal(At(b, cp))
       IN IF LtKminDiv10(T, value) THEN [ok |-> FALSE, cp |-> cp, value |-> value]
          ELSE IF LtKminPlus(T, value * 10, d)
               THEN [ok |-> FALSE, cp |-> cp, value |-> value]
          ELSE IF width > 0 /\ width - 1 = 0
               THEN [ok |-> TRUE, cp |-> cp + 1, value |-> value * 10 - d]
          ELSE ParseIntLoop(b, cp + 1, end,
                            IF width > 0 THEN width - 1 ELSE width,
                            value * 10 - d, T)

\* a "-0" that is let through
NegativeZeroAllowed(neg, value) == FALSE

\* if (neg && value == 0) return nullptr;
NegativeZero(neg, value) == neg /\ value = 0

\* ParseInt after its loop, r being what the loop left: the checks of the
\* cursor, of kmin and of "-0", the sign, the range, and the store to *vp
ParseIntResult(neg, begin1, min, max, T, old, r) ==
  LET value == IF neg THEN r.value ELSE -r.value
      fail == [ok |-> FALSE, pos |-> 0, val |-> old]
  IN IF ~r.ok THEN fail
     ELSE IF r.cp = begin1 THEN fail
     ELSE IF ~neg /\ IsKmin(T, r.value) THEN fail
     ELSE IF NegativeZero(neg, r.value) THEN fail
     ELSE IF ~(min <= value /\ value <= max) THEN fail
     ELSE [ok |-> TRUE, pos |-> r.cp, val |-> value]

\* const char* ParseInt(char_range s, int width, T min, T max, T* vp):
\* [ok, pos (the returned cursor), val (what *vp holds afterwards)]
ParseInt(b, begin, end, width, min, max, T, old) ==
  LET neg == StartsWithChar(b, begin, end, "-")
      begin1 == IF neg THEN begin + 1 ELSE begin
      width1 == IF neg /\ width > 1 THEN width - 1 ELSE width
  IN IF neg /\ width = 1 THEN [ok |-> FALSE, pos |-> 0, val |-> old]
     ELSE ParseIntResult(neg, begin1, min, max, T, old,
                         ParseIntLoop(b, begin1, end, width1, 0, T))

\* --------------------------------------- civil time and zone collaborators

\* civil-calendar arithmetic (cctz/civil_time.h): days since 1970-01-01
days_from_civil(y, m, d) ==
  LET y1 == IF m <= 2 THEN y - 1 ELSE y
      era == y1 \div 400
      yoe == y1 - era * 400
      doy == (153 * (IF m > 2 THEN m - 3 ELSE m + 9) + 2) \div 5 + d - 1
      doe == yoe * 365 + yoe \div 4 - yoe \div 100 + doy
  IN era * 146097 + doe - 719468

civil_from_days(z) ==
  LET z1 == z + 719468
      era == z1 \div 146097
      doe == z1 - era * 146097
      yoe == (doe - doe \div 1460 + doe \div 36524 - doe \div 146096) \div 365
      doy == doe - (365 * yoe + yoe \div 4 - yoe \div 100)
      mp == (5 * doy + 2) \div 153
      d == doy - (153 * mp + 2) \div 5 + 1
      m == IF mp < 10 THEN mp + 3 ELSE mp - 9
      y == yoe + era * 400
  IN [y |-> IF m <= 2 THEN y + 1 ELSE y, m |-> m, d |-> d]

\* An instant (time_point<seconds>): day is the count of whole days since
\* the Unix epoch and sec the second within that day, so that
\* ToUnixSeconds == day * 86400 + sec.
Instant(day, sec) == [day |-> day, sec |-> sec]

\* instant + n seconds
InstantPlus(tp, n) ==
  LET t == tp.sec + n
  IN Instant(tp.day + t \div 86400, t % 86400)

\* civil_second(y, m, d, hh, mm, ss), normalized as the constructor does
\* for the field ranges parse() can pass (only days roll over)
civil_second(y, m, d, hh, mm, ss) ==
  LET c == civil_from_days(days_from_civil(y, m, 1) + d - 1)
  IN [y |-> c.y, m |-> c.m, d |-> c.d, hh |-> hh, mm |-> mm, ss |-> ss]

\* the absolute second a civil second names in UTC
CivilToInstant(cs) ==
  Instant(days_from_civil(cs.y, cs.m, cs.d), cs.hh * 3600 + cs.mm * 60 + cs.ss)

InstantToCivil(tp) ==
  LET c == civil_from_days(tp.day)
  IN [y |-> c.y, m |-> c.m, d |-> c.d,
      hh |-> tp.sec \div 3600, mm |-> (tp.sec \div 60) % 60, ss |-> tp.sec % 60]

\* civil_second - offset (operator-=)
CivilMinus(cs, offset) == InstantToCivil(InstantPlus(CivilToInstant(cs), -offset))

\* get_weekday(cs) as tm_wday (0 = Sunday) and get_yearday(cs)
get_weekday(cs) == (days_from_civil(cs.y, cs.m, cs.d) + 4) % 7
get_yearday(cs) == days_from_civil(cs.y, cs.m, cs.d) - days_from_civil(cs.y, 1, 1) + 1

\* A time zone of fixed offset: [offset |-> seconds east of UTC, abbr |-> text]
FixedZone(offset, abbr) == [offset |-> offset, abbr |-> abbr]

utc_time_zone == FixedZone(0, <<"U", "T", "C">>)

\* time_zone::lookup(const time_point<seconds>&): the absolute_lookup
LookupInstant(tz, tp) ==
  [cs |-> InstantToCivil(InstantPlus(tp, tz.offset)),
   offset |-> tz.offset, is_dst |-> FALSE, abbr |-> tz.abbr]

\* time_zone::lookup(const civil_second&).pre
LookupCivilPre(tz, cs) == InstantPlus(CivilToInstant(cs), -tz.offset)

FromUnixSeconds(n) == Instant(n \div 86400, n % 86400)

\* ToUnixSeconds(tp) as a wide value: |day * 86400 + sec| by limbs of 1000
ToUnixSeconds(tp) ==
  LET neg == tp.day < 0
      \* |t| == q * 86400 + r with q, r >= 0
      q == IF neg THEN (IF tp.sec = 0 THEN -tp.day ELSE -tp.day - 1) ELSE tp.day
      r == IF neg THEN (IF tp.sec = 0 THEN 0 ELSE 86400 - tp.sec) ELSE tp.sec
      t0 == (q % 1000) * 86400 + r
      t1 == ((q \div 1000) % 1000) * 86400 + t0 \div 1000
      t2 == (q \div 1000000) * 86400 + t1 \div 1000
      Three(n) == <<n \div 100, (n \div 10) % 10, n % 10>>
      w == WideOfDigits(NatDigits(t2) \o Three(t1 % 1000) \o Three(t0 % 1000))
  IN [w EXCEPT !.neg = neg /\ ~WIsZero(w)]

\* ------------------------------------------- broken-down-time collaborator

\* std::tm ToTM(const time_zone::absolute_lookup& al)
ToTM(al) ==
  [sec |-> al.cs.ss, min |-> al.cs.mm, hour |-> al.cs.hh, mday |-> al.cs.d,
   mon |-> al.cs.m - 1,
   year |-> IF al.cs.y < IntMin + 1900 THEN IntMin
            ELSE IF al.cs.y - 1900 > IntMax THEN IntMax
            ELSE al.cs.y - 1900,
   wday |-> get_weekday(al.cs), yday |-> get_yearday(al.cs) - 1,
   isdst |-> IF al.is_dst THEN 1 ELSE 0]

\* The conversions of strftime(3) the model knows.
StrftimeConv(c, tm) ==
  CASE c = "%" -> <<"%">>
    [] c = "y" -> Format02d((tm.year + 1900) % 100)
    [] c = "I" -> Format02d(IF tm.hour % 12 = 0 THEN 12 ELSE tm.hour % 12)
    [] c = "p" -> IF tm.hour < 12 THEN <<"A", "M">> ELSE <<"P", "M">>
    [] c = "D" -> Format02d(tm.mon + 1) \o <<"/">> \o Format02d(tm.mday)
                    \o <<"/">> \o Format02d((tm.year + 1900) % 100)

StrftimeKnown == {"%", "y", "I", "p", "D"}

\* the names of the days and of the months, in full
DayNames ==
  <<"Sunday", "Monday", "Tuesday", "Wednesday", "Thursday", "Friday", "Saturday">>
MonthNames ==
  <<"January", "February", "March", "April", "May", "June", "July", "August",
    "September", "October", "November", "December">>

\* a name as text
NameText(name) ==
  CASE name = "Sunday" -> <<"S", "u", "n", "d", "a", "y">>
    [] name = "Monday" -> <<"M", "o", "n", "d", "a", "y">>
    [] name = "Tuesday" -> <<"T", "u", "e", "s", "d", "a", "y">>
    [] name = "Wednesday" -> <<"W", "e", "d", "n", "e", "s", "d", "a", "y">>
    [] name = "Thursday" -> <<"T", "h", "u", "r", "s", "d", "a", "y">>
    [] name = "Friday" -> <<"F", "r", "i", "d", "a", "y">>
    [] name = "Saturday" -> <<"S", "a", "t", "u", "r", "d", "a", "y">>
    [] name = "January" -> <<"J", "a", "n", "u", "a", "r", "y">>
    [] name = "February" -> <<"F", "e", "b", "r", "u", "a", "r", "y">>
    [] name = "March" -> <<"M", "a", "r", "c", "h">>
    [] name = "April" -> <<"A", "p", "r", "i", "l">>
    [] name = "May" -> <<"M", "a", "y">>
    [] name = "June" -> <<"J", "u", "n", "e">>
    [] name = "July" -> <<"J", "u", "l", "y">>
    [] name = "August" -> <<"A", "u", "g", "u", "s", "t">>
    [] name = "September" -> <<"S", "e", "p", "t", "e", "m", "b", "e", "r">>
    [] name = "October" -> <<"O", "c", "t", "o", "b", "e", "r">>
    [] name = "November" -> <<"N", "o", "v", "e", "m", "b", "e", "r">>
    [] name = "December" -> <<"D", "e", "c", "e", "m", "b", "e", "r">>

\* the year of tm in four digits (years 1000..9999)
Year4Text(tm) == Format02d((tm.year + 1900) \div 100) \o Format02d((tm.year + 1900) % 100)

\* %c, the locale's date and time: "Sat Feb 29 13:05:09 2020" in the C
\* locale, and "Saturday 29 February 2020 13:05:09" in a locale that spells
\* the names in full (platform "long").
DateAndTime(tm, platform) ==
  LET hms == Format02d(tm.hour) \o <<":">> \o Format02d(tm.min) \o <<":">>
               \o Format02d(tm.sec)
      mday == <<IF tm.mday < 10 THEN " " ELSE kDigits[(tm.mday \div 10) + 1],
                kDigits[(tm.mday % 10) + 1]>>
  IN IF platform = "long"
     THEN NameText(DayNames[tm.wday + 1]) \o <<" ">> \o Format02d(tm.mday) \o <<" ">>
            \o NameText(MonthNames[tm.mon + 1]) \o <<" ">> \o Year4Text(tm) \o <<" ">>
            \o hms
     ELSE SubSeq(NameText(DayNames[tm.wday + 1]), 1, 3) \o <<" ">>
            \o SubSeq(NameText(MonthNames[tm.mon + 1]), 1, 3) \o <<" ">> \o mday \o <<" ">> \o hms
            \o <<" ">> \o Year4Text(tm)

\* The text strftime(3) produces for fmt: ordinary characters are copied,
\* a known conversion (with an optional E or O modifier) is rendered, and
\* anything else after a '%' is undefined by ISO C: the platform either
\* copies it as it stands or gives up (ok = FALSE).
RECURSIVE StrftimeText(_, _, _, _, _)
StrftimeText(f, i, tm, platform, acc) ==
  IF i > Len(f) THEN [ok |-> TRUE, text |-> acc]
  ELSE IF f[i] # "%" THEN StrftimeText(f, i + 1, tm, platform, Append(acc, f[i]))
  ELSE LET j == IF i + 1 <= Len(f) /\ f[i + 1] \in {"E", "O"} THEN i + 2 ELSE i + 1
       IN IF j <= Len(f) /\ f[j] \in StrftimeKnown
          THEN StrftimeText(f, j + 1, tm, platform, acc \o StrftimeConv(f[j], tm))
          ELSE IF j <= Len(f) /\ f[j] = "c"
          THEN StrftimeText(f, j + 1, tm, platform, acc \o DateAndTime(tm, platform))
          ELSE IF platform \in {"verbatim", "long"}
               THEN StrftimeText(f, i + 1, tm, platform, Append(acc, "%"))
               ELSE [ok |-> FALSE, text |-> <<>>]

\* size_t strftime(char* s, size_t max, const char* fmt, const tm*):
\* the bytes placed when they fit with their terminator, else nothing
strftime(max, f, tm, platform) ==
  LET r == StrftimeText(f, 1, tm, platform, <<>>)
  IN IF r.ok /\ Len(r.text) + 1 <= max THEN r.text ELSE <<>>

\* the for (i = 2; i != 32; i *= 2) loop of FormatTM
RECURSIVE FormatTMLoop(_, _, _, _, _)
FormatTMLoop(out, f, tm, platform, i) ==
  IF i = 32 THEN out
  ELSE LET got == strftime(Len(f) * i, f, tm, platform)
       IN IF Len(got) # 0 THEN out \o got
          ELSE FormatTMLoop(out, f, tm, platform, i * 2)

\* void FormatTM(std::string* out, char_range fmt_range, const std::tm& tm)
FormatTM(out, f, tm, platform) == FormatTMLoop(out, f, tm, platform, 2)

\* ------------------------------------------------------------ format()

\* while (cur != end && *cur != '%') ++cur;
RECURSIVE ScanToPercent(_, _)
ScanToPercent(f, cur) ==
  IF cur # Len(f) + 1 /\ f[cur] # "%" THEN ScanToPercent(f, cur + 1) ELSE cur

\* while (cur != end && *cur == '%') ++cur;
RECURSIVE ScanPercents(_, _)
ScanPercents(f, cur) ==
  IF cur # Len(f) + 1 /\ f[cur] = "%" THEN ScanPercents(f, cur + 1) ELSE cur

\* if (e != pending) FormatTM(&result, char_range(pending, e), tm);
FlushPending(result, f, pending, e, cx) ==
  IF e # pending THEN FormatTM(result, SubSeq(f, pending, e - 1), cx.tm, cx.platform)
  ELSE result

\* the switch over the simple specifiers "YmdeHMSzZs%"
SimpleSpecifier(c, cx) ==
  CASE c = "Y" -> Format64(0, Wide(cx.al.cs.y))
    [] c = "m" -> Format02d(cx.al.cs.m)
    [] c = "d" -> Format02d(cx.al.cs.d)
    [] c = "e" -> LET t == Format02d(cx.al.cs.d)
                  IN IF t[1] = "0" THEN <<" ", t[2]>> ELSE t
    [] c = "H" -> Format02d(cx.al.cs.hh)
    [] c = "M" -> Format02d(cx.al.cs.mm)
    [] c = "S" -> Format02d(cx.al.cs.ss)
    [] c = "z" -> FormatOffset(cx.al.offset, <<>>)
    [] c = "Z" -> cx.al.abbr
    [] c = "s" -> Format64(0, cx.unix)
    [] c = "%" -> <<"%">>

SimpleSet == {"Y", "m", "d", "e", "H", "M", "S", "z", "Z", "s", "%"}

\* %E*S and %E*f: 15 digits of fs, trailing zeros trimmed
RECURSIVE TrimZeros(_)
TrimZeros(t) ==
  IF t # <<>> /\ t[Len(t)] = "0" THEN TrimZeros(SubSeq(t, 1, Len(t) - 1)) ELSE t

FormatStarSubsec(c, cx) ==
  LET digits == TrimZeros(Format64(15, cx.fs))
  IN IF c = "S"
     THEN Format02d(cx.al.cs.ss) \o (IF digits # <<>> THEN <<".">> ELSE <<>>) \o digits
     ELSE IF digits = <<>> THEN <<"0">> ELSE digits

\* the width left as parsed
WidthUncapped(n) == n

\* if (n > kDigits10_64) n = kDigits10_64;
WidthCap(n) == IF n > kDigits10_64 THEN kDigits10_64 ELSE n

\* %E#S and %E#f for the parsed width n
FormatWidthSubsec(c, n, cx) ==
  LET n1 == WidthCap(n)
      v == IF n1 > 15 THEN WMulExp10(cx.fs, n1 - 15) ELSE WDivExp10(cx.fs, 15 - n1)
      frac == IF n > 0
              THEN (IF c = "S" THEN <<".">> ELSE <<>>) \o Format64(n1, v)
              ELSE <<>>
  IN (IF c = "S" THEN Format02d(cx.al.cs.ss) ELSE <<>>) \o frac

\* no '%' of the run copied out, the pairs not skipped
EscapedNone(cur, pending) == 0

\* std::size_t escaped = static_cast<std::size_t>(cur - pending) / 2;
Escaped(cur, pending) == (cur - pending) \div 2

\* One pass of the while (cur != end) loop of format(), from the state
\* [cur, pending, result]; the state at the end of the pass.
FormatPass(f, st, cx) ==
  LET end == Len(f) + 1
      start0 == st.cur
      cur1 == ScanToPercent(f, st.cur)
      copy == cur1 # start0 /\ st.pending = start0
      result1 == IF copy THEN st.result \o SubSeq(f, st.pending, cur1 - 1) ELSE st.result
      pending1 == IF copy THEN cur1 ELSE st.pending
      start1 == IF copy THEN cur1 ELSE start0
      percent == cur1
      cur == ScanPercents(f, cur1)
      coll == cur # start1 /\ pending1 = start1
      escaped == Escaped(cur, pending1)
      result2 == IF coll THEN result1 \o SubSeq(f, pending1, pending1 + escaped - 1)
                 ELSE result1
      pending2 == IF coll THEN pending1 + escaped * 2 ELSE pending1
      lone == coll /\ pending2 # cur /\ cur = end
      result3 == IF lone THEN Append(result2, f[pending2]) ELSE result2
      pending == IF lone THEN pending2 + 1 ELSE pending2
      Go(c, p, r) == [cur |-> c, pending |-> p, result |-> r]
      Ch(i) == f[i]
  IN IF cur = end \/ (cur - percent) % 2 = 0 THEN Go(cur, pending, result3)
     ELSE IF Ch(cur) \in SimpleSet
     THEN Go(cur + 1, cur + 1,
             FlushPending(result3, f, pending, cur - 1, cx) \o SimpleSpecifier(Ch(cur), cx))
     ELSE IF Ch(cur) = ":" /\ cur + 1 # end /\ Ch(cur + 1) = "z"
     THEN Go(cur + 2, cur + 2,
             FlushPending(result3, f, pending, cur - 1, cx)
               \o FormatOffset(cx.al.offset, <<":">>))
     ELSE IF Ch(cur) = ":" /\ cur + 1 # end /\ Ch(cur + 1) = ":" /\ cur + 2 # end
             /\ Ch(cur + 2) = "z"
     THEN Go(cur + 3, cur + 3,
             FlushPending(result3, f, pending, cur - 1, cx)
               \o FormatOffset(cx.al.offset, <<":", "*">>))
     ELSE IF Ch(cur) = ":" /\ cur + 1 # end /\ Ch(cur + 1) = ":" /\ cur + 2 # end
             /\ Ch(cur + 2) = ":" /\ cur + 3 # end /\ Ch(cur + 3) = "z"
     THEN Go(cur + 4, cur + 4,
             FlushPending(result3, f, pending, cur - 1, cx)
               \o FormatOffset(cx.al.offset, <<":", "*", ":">>))
     ELSE IF Ch(cur) # "E" THEN Go(cur, pending, result3)
     ELSE IF cur + 1 = end THEN Go(cur + 1, pending, result3)
     ELSE LET c == cur + 1
              flushed == FlushPending(result3, f, pending, c - 2, cx)
          IN IF Ch(c) = "z"
             THEN Go(c + 1, c + 1, flushed \o FormatOffset(cx.al.offset, <<":">>))
             ELSE IF Ch(c) = "*" /\ c + 1 # end /\ Ch(c + 1) = "z"
             THEN Go(c + 2, c + 2, flushed \o FormatOffset(cx.al.offset, <<":", "*">>))
             ELSE IF Ch(c) = "*" /\ c + 1 # end /\ Ch(c + 1) \in {"S", "f"}
             THEN Go(c + 2, c + 2, flushed \o FormatStarSubsec(Ch(c + 1), cx))
             ELSE IF Ch(c) = "4" /\ c + 1 # end /\ Ch(c + 1) = "Y"
             THEN Go(c + 2, c + 2, flushed \o Format64(4, Wide(cx.al.cs.y)))
             ELSE IF IsDigit(Ch(c))
             THEN LET np == ParseInt(Buf(f, <<>>), c, end, 0, 0, 1024, "int", 0)
                  IN IF ~np.ok \/ np.pos = end THEN Go(c, pending, result3)
                     ELSE IF Ch(np.pos) \in {"S", "f"}
                     THEN Go(np.pos + 1, np.pos + 1,
                             flushed \o FormatWidthSubsec(Ch(np.pos), np.val, cx))
                     ELSE Go(c, pending, result3)
             ELSE Go(c, pending, result3)

RECURSIVE FormatLoop(_, _, _)
FormatLoop(f, st, cx) ==
  IF st.cur = Len(f) + 1 THEN st ELSE FormatLoop(f, FormatPass(f, st, cx), cx)

\* std::string format(char_range format, const time_point<seconds>& tp,
\*                    const detail::femtoseconds& fs, const time_zone& tz)
\* platform is the behaviour of the C library's strftime on what ISO C
\* leaves undefined.
format(f, tp, fs, tz, platform) ==
  LET al == LookupInstant(tz, tp)
      cx == [al |-> al, tm |-> ToTM(al), fs |-> fs, unix |-> ToUnixSeconds(tp),
             platform |-> platform]
      st == FormatLoop(f, [cur |-> 1, pending |-> 1, result |-> <<>>], cx)
  IN FlushPending(st.result, f, st.pending, Len(f) + 1, cx)

\* ------------------------------------------------------- parse helpers

\* ParseOffset once the seconds were tried from b3: sc is ParseInt's result
OffsetAfterSeconds(b3, first, hm, oob, sc) ==
  LET total == (hm * 60) + sc.val
  IN [ok |-> TRUE, pos |-> IF sc.ok /\ sc.pos - b3 = 2 THEN sc.pos ELSE b3,
      offset |-> IF first = "-" THEN -total ELSE total, oob |-> oob]

\* ParseOffset once the minutes were tried from b2: m is ParseInt's result
OffsetAfterMinutes(b, b2, end, sep, first, hours, oob, m) ==
  LET haveM == m.ok /\ m.pos - b2 = 2
      sepM == sep # NUL /\ At(b, m.pos) = sep
      b3 == IF sepM THEN m.pos + 1 ELSE m.pos
      hm == hours * 60 + m.val
      total == hm * 60
  IN IF ~haveM
     THEN [ok |-> TRUE, pos |-> b2, offset |-> IF first = "-" THEN -total ELSE total,
           oob |-> oob]
     ELSE OffsetAfterSeconds(b3, first, hm,
                             oob \/ (sep # NUL /\ m.pos >= end) \/ b3 > end,
                             ParseInt(b, b3, end, 2, 0, 59, "int", 0))

\* ParseOffset once the hours were tried from b1: h is ParseInt's result
OffsetAfterHours(b, b1, end, sep, first, old, h) ==
  LET sepH == sep # NUL /\ At(b, h.pos) = sep
      b2 == IF sepH THEN h.pos + 1 ELSE h.pos
  IN IF ~h.ok \/ h.pos - b1 # 2
     THEN [ok |-> FALSE, pos |-> 0, offset |-> old, oob |-> FALSE]
     ELSE OffsetAfterMinutes(b, b2, end, sep, first, h.val,
                             (sep # NUL /\ h.pos >= end) \/ b2 > end,
                             ParseInt(b, b2, end, 2, 0, 59, "int", 0))

\* const char* ParseOffset(char_range data, const char* mode, int* offset):
\* [ok, pos (the returned cursor), offset (what *offset holds afterwards),
\*  oob (a character at or past data.end was dereferenced)]
ParseOffset(b, begin, end, mode, old) ==
  LET fail == [ok |-> FALSE, pos |-> 0, offset |-> old, oob |-> FALSE]
      first == At(b, begin)
  IN IF begin = end THEN fail
     ELSE IF first = "Z" THEN [ok |-> TRUE, pos |-> begin + 1, offset |-> 0, oob |-> FALSE]
     ELSE IF first # "+" /\ first # "-" THEN fail
     ELSE OffsetAfterHours(b, begin + 1, end, ModeAt(mode, 0), first, old,
                           ParseInt(b, begin + 1, end, 2, 0, 23, "int", 0))

\* while (dp != data.end) { if (std::isspace(*dp)) break; ++dp; }
RECURSIVE ScanToSpace(_, _, _)
ScanToSpace(b, dp, end) ==
  IF dp # end /\ ~IsSpace(At(b, dp)) THEN ScanToSpace(b, dp + 1, end) ELSE dp

\* const char* ParseZone(char_range data, std::string* zone)
ParseZone(b, begin, end) ==
  LET dp == ScanToSpace(b, begin, end)
  IN IF dp = begin THEN [ok |-> FALSE, pos |-> 0, zone |-> <<>>]
     ELSE [ok |-> TRUE, pos |-> dp,
           zone |-> [i \in 1..(dp - begin) |-> At(b, begin + i - 1)]]

\* the while (cp != s.end) loop of ParseSubSeconds: v as its digits
RECURSIVE ParseSubSecondsLoop(_, _, _, _)
ParseSubSecondsLoop(b, cp, end, v) ==
  IF cp = end \/ ~IsDigit(At(b, cp)) THEN [cp |-> cp, v |-> v]
  ELSE ParseSubSecondsLoop(b, cp + 1, end,
         IF Len(v) < 15 THEN Append(v, DigitVal(At(b, cp))) ELSE v)

\* the digits read taken as the count of femtoseconds, unscaled
SubSecondsUnscaled(v) == WideOfDigits(v)

\* v *= kExp10[15 - exp]: the digits read, as femtoseconds
SubSecondsScaled(v) == WMulExp10(WideOfDigits(v), 15 - Len(v))

\* ParseSubSeconds after its loop, r being what the loop left
ParseSubSecondsResult(begin, old, r) ==
  IF r.cp = begin THEN [ok |-> FALSE, pos |-> 0, subseconds |-> old]
  ELSE [ok |-> TRUE, pos |-> r.cp, subseconds |-> SubSecondsScaled(r.v)]

\* const char* ParseSubSeconds(char_range s, detail::femtoseconds* subseconds)
ParseSubSeconds(b, begin, end, old) ==
  ParseSubSecondsResult(begin, old, ParseSubSecondsLoop(b, begin, end, <<>>))

\* The conversions of strptime(3) the model knows, on a NUL-terminated
\* text: %I (one or two digits, 1..12), %p (AM or PM), %y (two digits).
\* st is [pos, tm, have_I, is_pm]; an unknown conversion fails.
StrptimeNum(text, pos) ==
  IF pos <= Len(text) /\ IsDigit(text[pos])
  THEN IF pos + 1 <= Len(text) /\ IsDigit(text[pos + 1])
       THEN [n |-> 2, v |-> DigitVal(text[pos]) * 10 + DigitVal(text[pos + 1])]
       ELSE [n |-> 1, v |-> DigitVal(text[pos])]
  ELSE [n |-> 0, v |-> 0]

RECURSIVE StrptimeWalk(_, _, _, _)
StrptimeWalk(text, spec, i, st) ==
  IF ~st.ok \/ i > Len(spec) THEN st
  ELSE IF spec[i] # "%"
  THEN IF st.pos <= Len(text) /\ text[st.pos] = spec[i]
       THEN StrptimeWalk(text, spec, i + 1, [st EXCEPT !.pos = @ + 1])
       ELSE [st EXCEPT !.ok = FALSE]
  ELSE IF i + 1 > Len(spec) THEN [st EXCEPT !.ok = FALSE]
  ELSE LET c == spec[i + 1]
           num == StrptimeNum(text, st.pos)
       IN IF c = "I" /\ num.n > 0 /\ num.v >= 1 /\ num.v <= 12
          THEN StrptimeWalk(text, spec, i + 2,
                 [st EXCEPT !.pos = @ + num.n, !.tm.hour = num.v % 12, !.have_I = TRUE])
          ELSE IF c = "y" /\ num.n > 0
          THEN StrptimeWalk(text, spec, i + 2,
                 [st EXCEPT !.pos = @ + num.n,
                            !.tm.year = IF num.v < 69 THEN num.v + 100 ELSE num.v])
          ELSE IF c = "p" /\ st.pos + 1 <= Len(text)
                  /\ text[st.pos] \in {"A", "P"} /\ text[st.pos + 1] = "M"
          THEN StrptimeWalk(text, spec, i + 2,
                 [st EXCEPT !.pos = @ + 2, !.is_pm = (text[st.pos] = "P")])
          ELSE [st EXCEPT !.ok = FALSE]

\* what strptime returns for the walk st
StrptimeResult(st) ==
  [ok |-> st.ok, n |-> st.pos - 1,
   tm |-> IF st.ok /\ st.have_I /\ st.is_pm
          THEN [st.tm EXCEPT !.hour = @ + 12] ELSE st.tm]

\* char* strptime(const char* s, const char* fmt, std::tm* tm):
\* [ok, n (characters consumed), tm]
strptime(text, spec, tm) ==
  StrptimeResult(StrptimeWalk(text, spec, 1,
                   [ok |-> TRUE, pos |-> 1, tm |-> tm, have_I |-> FALSE,
                    is_pm |-> FALSE]))

\* -------------------------------------------------------------- parse()

\* numeric_limits<int_fast64_t>::min() and max() (also kyearmin, kyearmax):
\* the model's inputs are bounded so that every 64-bit quantity stays inside
\* TLC's integers, all of which lie between the two; the extremes
\* of TLC's integers stand for them.
kInt64Min == IntMin
kInt64Max == IntMax

\* the locals of parse() before the walk, and the two cursors
ParseLocals(ipos) ==
  [fpos |-> 1, ipos |-> ipos, year |-> 1970, saw_year |-> FALSE,
   tm |-> [sec |-> 0, min |-> 0, hour |-> 0, mday |-> 1, mon |-> 0, year |-> 70,
           wday |-> 4, yday |-> 0, isdst |-> 0],
   subseconds |-> Wide(0), saw_offset |-> FALSE, offset |-> 0,
   zone |-> <<"U", "T", "C">>, twelve_hour |-> FALSE, afternoon |-> FALSE,
   saw_percent_s |-> FALSE, percent_s |-> 0,
   failed |-> FALSE, oob |-> FALSE]

\* the cursor of the first NUL at or after p: the end of the C string at p
RECURSIVE CStrEnd(_, _)
CStrEnd(b, p) == IF At(b, p) = NUL THEN p ELSE CStrEnd(b, p + 1)

\* the AM/PM probe: strptime of "1" and the text consumed against "%I%p"
\* left tm_hour at 13
ProbeAfternoon(text, n, tm) ==
  strptime(<<"1">> \o SubSeq(text, 1, n), <<"%", "I", "%", "p">>,
           [tm EXCEPT !.hour = 0]).tm.hour = 13

\* the delegation after strptime() returned r
DelegateResult(w, spec, text, fpos, twelve, r) ==
  IF ~r.ok THEN [w EXCEPT !.failed = TRUE, !.twelve_hour = twelve]
  ELSE [w EXCEPT !.fpos = fpos, !.ipos = @ + r.n, !.tm = r.tm,
                 !.twelve_hour = twelve,
                 !.afternoon = IF spec = <<"%", "p">>
                               THEN ProbeAfternoon(text, r.n, w.tm) ELSE @]

\* the delegation of the specifier spec on the rest of the input, text
DelegateOn(w, spec, text, fpos, twelve) ==
  DelegateResult(w, spec, text, fpos, twelve, strptime(text, spec, w.tm))

\* "Parses the current specifier": the delegation to strptime() of the
\* specifier [percent, fpos) and the AM/PM probe
Delegate(fb, ib, w, percent, fpos, twelve) ==
  IF w.ipos > RangeEnd(ib) THEN [w EXCEPT !.failed = TRUE, !.oob = TRUE]
  ELSE DelegateOn(w, [i \in 1..(fpos - percent) |-> At(fb, percent + i - 1)],
                  SubSeq(ib.s, w.ipos, Len(ib.s)), fpos, twelve)

\* a subsecond run was read, or not: sub is ParseSubSeconds' result
StoreFraction(w, fpos, sub) ==
  IF ~sub.ok THEN [w EXCEPT !.failed = TRUE]
  ELSE [w EXCEPT !.fpos = fpos, !.ipos = sub.pos, !.subseconds = sub.subseconds]

\* the seconds were read, or not: sec is ParseInt's result; then an
\* optional '.' and a subsecond run
StoreSecAndFraction(ib, w, fpos, sec) ==
  IF ~sec.ok THEN [w EXCEPT !.failed = TRUE]
  ELSE IF ~StartsWithChar(ib, sec.pos, RangeEnd(ib), ".")
  THEN [w EXCEPT !.fpos = fpos, !.ipos = sec.pos, !.tm.sec = sec.val]
  ELSE StoreFraction([w EXCEPT !.tm.sec = sec.val], fpos,
                     ParseSubSeconds(ib, sec.pos + 1, RangeEnd(ib), w.subseconds))

\* seconds, then an optional '.' and a subsecond run (%E*S and %E#S)
ParseSecAndFraction(ib, w, fpos) ==
  StoreSecAndFraction(ib, w, fpos,
                      ParseInt(ib, w.ipos, RangeEnd(ib), 2, 0, 60, "int", w.tm.sec))

\* a subsecond run iff the next input byte is a digit (%E*f and %E#f)
ParseFraction(ib, w, fpos) ==
  IF ~IsDigit(At(ib, w.ipos))
  THEN [w EXCEPT !.fpos = fpos, !.oob = @ \/ w.ipos >= RangeEnd(ib)]
  ELSE StoreFraction([w EXCEPT !.oob = @ \/ w.ipos >= RangeEnd(ib)], fpos,
                     ParseSubSeconds(ib, w.ipos, RangeEnd(ib), w.subseconds))

\* the offset was read, or not: r is ParseOffset's result
StoreOffset(w, fpos, r) ==
  IF ~r.ok THEN [w EXCEPT !.failed = TRUE, !.oob = @ \/ r.oob]
  ELSE [w EXCEPT !.fpos = fpos, !.ipos = r.pos, !.offset = r.offset,
                 !.saw_offset = TRUE, !.oob = @ \/ r.oob]

\* an offset specifier (%z, %:z, %::z, %:::z, %Ez, %E*z)
ParseOffsetField(ib, w, fpos, mode) ==
  StoreOffset(w, fpos, ParseOffset(ib, w.ipos, RangeEnd(ib), mode, w.offset))

\* the range and the tm member of %m, %d, %e, %H, %M and %S
TmFieldOf(c) ==
  CASE c = "m" -> [min |-> 1, max |-> 12, name |-> "mon"]
    [] c \in {"d", "e"} -> [min |-> 1, max |-> 31, name |-> "mday"]
    [] c = "H" -> [min |-> 0, max |-> 23, name |-> "hour"]
    [] c = "M" -> [min |-> 0, max |-> 59, name |-> "min"]
    [] c = "S" -> [min |-> 0, max |-> 60, name |-> "sec"]

\* the field was read, or not: r is ParseInt's result
StoreTmField(w, fpos, name, r) ==
  IF ~r.ok THEN [w EXCEPT !.failed = TRUE]
  ELSE [w EXCEPT !.fpos = fpos, !.ipos = r.pos,
                 !.tm[name] = IF name = "mon" THEN r.val - 1 ELSE r.val,
                 !.twelve_hour = IF name = "hour" THEN FALSE ELSE @]

\* a two-digit field stored into tm
ParseTmField(ib, w, fpos, fd) ==
  StoreTmField(w, fpos, fd.name,
               ParseInt(ib, w.ipos, RangeEnd(ib), 2, fd.min, fd.max, "int", w.tm[fd.name]))

\* %E4Y was read, or not: y4 is ParseInt's result
StoreYear4(w, fpos, y4) ==
  IF ~y4.ok THEN [w EXCEPT !.failed = TRUE]
  ELSE IF y4.pos - w.ipos # 4 THEN [w EXCEPT !.failed = TRUE, !.year = y4.val]
  ELSE [w EXCEPT !.fpos = fpos, !.ipos = y4.pos, !.year = y4.val, !.saw_year = TRUE]

\* %E followed by a digit at p: np is ParseInt's result on the format, and
\* the specifier is %E#S or %E#f if an 'S' or an 'f' follows the digits
ParseWidthForm(fb, ib, w, percent, p, np) ==
  LET fend == RangeEnd(fb)
      w1 == [w EXCEPT !.oob = @ \/ p >= fend \/ (np.ok /\ np.pos > fend)]
  IN IF np.ok /\ np.pos # fend /\ At(fb, np.pos) = "S"
     THEN ParseSecAndFraction(ib, w1, np.pos + 1)
     ELSE IF np.ok /\ np.pos # fend /\ At(fb, np.pos) = "f"
     THEN ParseFraction(ib, w1, np.pos + 1)
     ELSE Delegate(fb, ib, [w EXCEPT !.oob = @ \/ p >= fend], percent,
                   IF p # fend THEN p + 1 ELSE p, w.twelve_hour)

\* case 'E' of the switch, with format.begin == p just past the 'E'
ParseCaseE(fb, ib, w, percent, p) ==
  LET fend == RangeEnd(fb)
      c == At(fb, p)
      star == StartsWithStr(fb, p, fend, <<"*", "z">>)
  IN IF StartsWithChar(fb, p, fend, "z") \/ star
     THEN ParseOffsetField(ib, w, IF star THEN p + 2 ELSE p + 1, <<":">>)
     ELSE IF StartsWithStr(fb, p, fend, <<"*", "S">>) THEN ParseSecAndFraction(ib, w, p + 2)
     ELSE IF StartsWithStr(fb, p, fend, <<"*", "f">>) THEN ParseFraction(ib, w, p + 2)
     ELSE IF StartsWithStr(fb, p, fend, <<"4", "Y">>)
     THEN StoreYear4(w, p + 2,
                     ParseInt(ib, w.ipos, RangeEnd(ib), 4, -999, 9999, "i64", w.year))
     ELSE IF IsDigit(c)
     THEN ParseWidthForm(fb, ib, w, percent, p,
                         ParseInt(fb, p, CStrEnd(fb, p), 0, 0, 1024, "int", 0))
     ELSE Delegate(fb, ib, [w EXCEPT !.oob = @ \/ p >= fend], percent,
                   IF p # fend THEN p + 1 ELSE p,
                   IF c = "c" \/ c = "X" THEN FALSE ELSE w.twelve_hour)

\* %Y was read, or not: r is ParseInt's result
StoreYear(w, fpos, r) ==
  IF ~r.ok THEN [w EXCEPT !.failed = TRUE]
  ELSE [w EXCEPT !.fpos = fpos, !.ipos = r.pos, !.year = r.val, !.saw_year = TRUE]

\* %s was read, or not: r is ParseInt's result
StorePercentS(w, fpos, r) ==
  IF ~r.ok THEN [w EXCEPT !.failed = TRUE]
  ELSE [w EXCEPT !.fpos = fpos, !.ipos = r.pos, !.percent_s = r.val,
                 !.saw_percent_s = TRUE]

\* %Z was read, or not: r is ParseZone's result
StoreZone(w, fpos, r) ==
  IF ~r.ok THEN [w EXCEPT !.failed = TRUE, !.zone = <<>>]
  ELSE [w EXCEPT !.fpos = fpos, !.ipos = r.pos, !.zone = r.zone]

\* how many characters of ":z", "::z" or ":::z" follow the '%' at q - 1,
\* counted from q (the character after the first ':'); 0 if none does
ColonForm(fb, q, fend) ==
  IF StartsWithChar(fb, q, fend, "z") THEN 1
  ELSE IF StartsWithStr(fb, q, fend, <<":", "z">>) THEN 2
  ELSE IF StartsWithStr(fb, q, fend, <<":", ":", "z">>) THEN 3
  ELSE 0

\* twelve_hour as the case of the specifier character c leaves it before
\* the delegation; c2 is the character after it
TwelveHourFor(c, c2, twelve_hour) ==
  CASE c \in {"I", "l", "r"} -> TRUE
    [] c \in {"R", "T", "c", "X"} -> FALSE
    [] c = "O" /\ c2 = "I" -> TRUE
    [] c = "O" /\ c2 = "H" -> FALSE
    [] OTHER -> twelve_hour

\* One pass of the while loop of parse() from the walk state w, whose
\* cursors are fpos (format.begin) and ipos (input.begin).
ParsePass(fb, ib, w) ==
  LET fend == RangeEnd(fb)
      iend == RangeEnd(ib)
      fsp == SkipSpaces(fb, w.fpos, fend)
      p == w.fpos + 1
      c == At(fb, p)
      q == p + 1
      colon == IF c = ":" THEN ColonForm(fb, q, fend) ELSE 0
      Fail == [w EXCEPT !.failed = TRUE]
  IN IF fsp # w.fpos
     THEN [w EXCEPT !.fpos = fsp, !.ipos = SkipSpaces(ib, w.ipos, iend)]
     ELSE IF At(fb, w.fpos) # "%"
     THEN IF At(fb, w.fpos) # At(ib, w.ipos) THEN Fail
          ELSE [w EXCEPT !.fpos = @ + 1, !.ipos = @ + 1]
     ELSE IF p = fend THEN Fail
     ELSE CASE c = "Y" ->
                 StoreYear(w, q, ParseInt(ib, w.ipos, iend, 0, kInt64Min, kInt64Max,
                                          "i64", w.year))
            [] c \in {"m", "d", "e", "H", "M", "S"} -> ParseTmField(ib, w, q, TmFieldOf(c))
            [] c = "z" \/ colon > 0 ->
                 ParseOffsetField(ib, w, q + colon, IF c = "z" THEN <<>> ELSE <<":">>)
            [] c = "Z" -> StoreZone(w, q, ParseZone(ib, w.ipos, iend))
            [] c = "s" ->
                 StorePercentS(w, q, ParseInt(ib, w.ipos, iend, 0, kInt64Min, kInt64Max,
                                              "i64", w.percent_s))
            [] c = "%" ->
                 IF ~StartsWithChar(ib, w.ipos, iend, "%") THEN Fail
                 ELSE [w EXCEPT !.fpos = q, !.ipos = @ + 1]
            [] c = "E" -> ParseCaseE(fb, ib, w, w.fpos, q)
            [] OTHER ->
                 Delegate(fb, ib, [w EXCEPT !.oob = @ \/ (c = "O" /\ q >= fend)], w.fpos,
                          IF c = "O" /\ q # fend THEN q + 1 ELSE q,
                          TwelveHourFor(c, At(fb, q), w.twelve_hour))

\* while (input.begin != input.end && format.begin != format.end)
RECURSIVE ParseWalk(_, _, _)
ParseWalk(fb, ib, w) ==
  IF w.failed \/ w.ipos = RangeEnd(ib) \/ w.fpos = RangeEnd(fb) THEN w
  ELSE ParseWalk(fb, ib, ParsePass(fb, ib, w))

\* cs > civil_second::max() + offset, or cs < civil_second::min() + offset:
\* the years of max() and min() are kyearmax and kyearmin
BeyondCivilRange(cs, offset) ==
  \/ (offset < 0 /\ cs.y > kInt64Max)
  \/ (offset > 0 /\ cs.y < kInt64Min)

\* the trailing-data check left out
TrailingDataIgnored(ib, ipos) == FALSE

\* if (input.begin != input.end): input is left after the final strip
TrailingData(ib, ipos) == ipos # RangeEnd(ib)

\* %s not given the last word
PercentSIgnored(w) == FALSE

\* if (saw_percent_s): "we ignore anything else and return that time"
PercentSOverride(w) == w.saw_percent_s

\* the offset left alone for a leap second
LeapOffsetKept(offset) == offset

\* offset -= 1 under if (tm.tm_sec == 60)
LeapOffset(offset) == offset - 1

\* normalization let through
NormalizationAllowed(cs, month, mday) == FALSE

\* if (cs.month() != month || cs.day() != tm.tm_mday)
Normalized(cs, month, mday) == cs.m # month \/ cs.d # mday

\* a failure that resets the outputs to the epoch
FailureClobbering(o, e) ==
  [ok |-> FALSE, sec |-> FromUnixSeconds(0), fs |-> Wide(0), err |-> e]

\* if (err != nullptr) *err = e; return false; with *sec and *fs not assigned
Failure(o, e) == [ok |-> FALSE, sec |-> o.sec, fs |-> o.fs, err |-> e]

\* The end of parse(), after the walk: the value returned and the three
\* out-parameters, [ok, sec, fs, err]; o holds the out-parameters as the
\* caller passed them.
ParseFinish(ib, w, tz, o) ==
  LET iend == RangeEnd(ib)
      hour == IF w.twelve_hour /\ w.afternoon /\ w.tm.hour < 12
              THEN w.tm.hour + 12 ELSE w.tm.hour
      ipos == SkipSpaces(ib, w.ipos, iend)
      ptz == IF w.saw_offset THEN utc_time_zone ELSE tz
      leap == w.tm.sec = 60
      sec == IF leap THEN w.tm.sec - 1 ELSE w.tm.sec
      offset == IF leap THEN LeapOffset(w.offset) ELSE w.offset
      subseconds == IF leap THEN Wide(0) ELSE w.subseconds
      year == IF w.saw_year THEN w.year ELSE w.tm.year + 1900
      month == w.tm.mon + 1
      cs == civil_second(year, month, w.tm.mday, hour, w.tm.min, sec)
      tp == LookupCivilPre(ptz, CivilMinus(cs, offset))
      Err(e) == Failure(o, e)
  IN IF w.failed THEN Err("Failed to parse input")
     ELSE IF TrailingData(ib, ipos) THEN Err("Illegal trailing data in input string")
     ELSE IF PercentSOverride(w)
     THEN [ok |-> TRUE, sec |-> FromUnixSeconds(w.percent_s), fs |-> Wide(0),
           err |-> o.err]
     ELSE IF ~w.saw_year /\ w.tm.year > kInt64Max - 1900 THEN Err("Out-of-range year")
     ELSE IF Normalized(cs, month, w.tm.mday) THEN Err("Out-of-range field")
     ELSE IF BeyondCivilRange(cs, offset) THEN Err("Out-of-range field")
     ELSE [ok |-> TRUE, sec |-> tp, fs |-> subseconds, err |-> o.err]

\* bool parse(char_range format, char_range input, const time_zone& tz,
\*            time_point<seconds>* sec, detail::femtoseconds* fs,
\*            std::string* err)
parse(fb, ib, tz, o) ==
  ParseFinish(ib, ParseWalk(fb, ib, ParseLocals(SkipSpaces(ib, 1, RangeEnd(ib)))), tz, o)

\* ------------------------------------------------------- the calls made

VARIABLES
  kind,      \* which family of calls this behaviour belongs to
  gen,       \* the values the arguments were built from
  fmt,       \* format: the format string of format() and of parse()
  ftail,     \* the bytes that follow the format string in memory
  input,     \* parse()'s input
  itail,     \* the bytes that follow the input in memory
  tz,        \* the time zone
  tp,        \* format()'s instant
  fs,        \* format()'s femtoseconds
  platform,  \* how the C library treats what ISO C leaves undefined
  pc,        \* "format", "parse" or "done"
  result,    \* the string format() returned
  ret,       \* the value parse() returned
  sec,       \* parse()'s out-parameter sec
  fs_out,    \* parse()'s out-parameter fs
  err,       \* parse()'s out-parameter err
  out        \* what a helper called on its own returned

vars == <<kind, gen, fmt, ftail, input, itail, tz, tp, fs, platform, pc, result,
          ret, sec, fs_out, err, out>>

\* what the out-parameters hold before the call
Unset == [sec |-> Instant(0, 7), fs |-> Wide(7), err |-> "unset"]

Platforms == {"verbatim", "fail"}

\* text of a natural number, and of a two-digit field
NatText(n) == [i \in 1..Len(NatDigits(n)) |-> kDigits[NatDigits(n)[i] + 1]]
Two(n) == <<kDigits[(n \div 10) + 1], kDigits[(n % 10) + 1]>>
IntText(n) == IF n < 0 THEN <<"-">> \o NatText(-n) ELSE NatText(n)

IsLeapYear(y) == y % 4 = 0 /\ (y % 100 # 0 \/ y % 400 = 0)
DaysInMonth(y, m) ==
  IF m = 2 THEN (IF IsLeapYear(y) THEN 29 ELSE 28)
  ELSE IF m \in {4, 6, 9, 11} THEN 30 ELSE 31

\* a call of format() or parse(), as the values of the variables
Call(k, g, f, in, it, z, t, fsv, pl, p) ==
  /\ kind = k /\ gen = g /\ fmt = f /\ ftail = <<NUL>> /\ input = in /\ itail = it
  /\ tz = z /\ tp = t /\ fs = fsv /\ platform = pl /\ pc = p
  /\ result = <<>> /\ ret = FALSE
  /\ sec = Unset.sec /\ fs_out = Unset.fs /\ err = Unset.err
  /\ out = <<>>

\* format() is called on the arguments
DoFormat ==
  /\ pc = "format"
  /\ result' = format(fmt, tp, fs, tz, platform)
  /\ IF kind = "roundtrip"
     THEN pc' = "parse" /\ input' = result'
     ELSE pc' = "done" /\ input' = input
  /\ UNCHANGED <<kind, gen, fmt, ftail, itail, tz, tp, fs, platform, ret, sec, fs_out, err,
               out>>

\* parse() is called on the arguments
DoParse ==
  /\ pc = "parse"
  /\ \E r \in {parse(Buf(fmt, ftail), Buf(input, itail), tz,
                      [sec |-> sec, fs |-> fs_out, err |-> err])} :
       ret' = r.ok /\ sec' = r.sec /\ fs_out' = r.fs /\ err' = r.err
  /\ pc' = "done"
  /\ UNCHANGED <<kind, gen, fmt, ftail, input, itail, tz, tp, fs, platform, result, out>>

\* ------------------------------------------- round trips: format, then parse

\* the longest run of significant digits in the femtosecond counts drawn
MaxSig == 2

SigDigits == {0, 1, 9}

\* femtosecond counts in [0, 10^15): a run of up to MaxSig digits placed
\* anywhere among the fifteen
FsDigits ==
  UNION {{Repeat(0, k) \o p \o Repeat(0, 15 - k - n) : p \in [1..n -> SigDigits],
                                                      k \in 0..(15 - n)} : n \in 1..MaxSig}

FsValues == {WideOfDigits(d) : d \in FsDigits}

\* the fifteen digits of a femtosecond count
Pad15(v) == Repeat(0, 15 - Len(v.mag)) \o v.mag

RTHead == <<"%", "E", "4", "Y", "-", "%", "m", "-", "%", "d", "T", "%", "H", ":", "%", "M", ":">>
RTTail == <<"%", "E", "z">>

\* %E4Y-%m-%dT%H:%M:%S%Ez, and the same with the subsecond specifiers
RTSeconds == RTHead \o <<"%", "S">> \o RTTail
RTStarS == RTHead \o <<"%", "E", "*", "S">> \o RTTail
RTStarF == RTHead \o <<"%", "S", ".", "%", "E", "*", "f">> \o RTTail
StarS == <<"%", "E", "*", "S">>
StarF == <<"%", "E", "*", "f">>

RTYears == {-1000, -999, -1, 0, 1, 1970, 2024, 9999, 10000}
RTDays == {<<1, 1>>, <<2, 28>>, <<12, 31>>}
RTTimes == {<<0, 0, 0>>, <<12, 30, 15>>, <<23, 59, 59>>}
RTOffsets == {0, 3600, -3600, 5400, -5400, 5445, -5445, -10, 50400}

\* A civil second of the zone is formatted and the text parsed back.  The
\* text format() returns is a std::string, so the byte after it is NUL.
RoundTrip(f, y, md, hms, off, fsv) ==
  LET zone == FixedZone(off, <<"X">>)
      cs == civil_second(y, md[1], md[2], hms[1], hms[2], hms[3])
  IN Call("roundtrip", [y |-> y, cs |-> cs, off |-> off], f, <<>>, <<NUL>>, zone,
          LookupCivilPre(zone, cs), fsv, "verbatim", "format")

InitRoundTrip ==
  \/ \E y \in RTYears, md \in RTDays, hms \in RTTimes, off \in RTOffsets,
        fsv \in {Wide(0), WideOfDigits(<<1, 2, 3>>)} :
       RoundTrip(RTSeconds, y, md, hms, off, fsv)
  \/ \E f \in {RTStarS, RTStarF, StarS, StarF}, y \in {1970, 2024},
        hms \in {<<0, 0, 0>>, <<23, 59, 59>>}, off \in {0, 5400}, fsv \in FsValues :
       RoundTrip(f, y, <<2, 28>>, hms, off, fsv)

\* format() and then parse() on what it returned
Init == InitRoundTrip

Next == DoFormat \/ DoParse

Spec == Init /\ [][Next]_vars

\* ----------------------------------------------------------------- C1

RoundTripDone == pc = "done" /\ kind = "roundtrip"

\* C1 as stated: every civil second of the zone, whatever its year and the
\* zone's offset, formatted with %E4Y-%m-%dT%H:%M:%S%Ez and parsed back with
\* the same format and zone, gives the original instant and zero subseconds.
C1_RoundTripAnyYearAnyOffset ==
  RoundTripDone /\ fmt = RTSeconds => ret /\ sec = tp /\ fs_out = Wide(0)

\* C1, amended: the round trip through %E4Y-%m-%dT%H:%M:%S%Ez returns the
\* original instant and zero subseconds for every civil second whose year in
\* the zone lies in [-999, 9999] (the years %E4Y writes in four characters)
\* and every zone offset that is a whole number of minutes (%Ez writes no
\* seconds).
C1_RoundTripSeconds ==
  RoundTripDone /\ fmt = RTSeconds /\ gen.cs.y \in -999..9999 /\ gen.off % 60 = 0
    => ret /\ sec = tp /\ fs_out = Wide(0)

C1_Witness ==
  /\ RoundTripDone /\ fmt = RTSeconds /\ gen.cs.y = -999 /\ gen.off = -5400
  /\ fs # Wide(0) /\ ret /\ sec = tp /\ fs_out = Wide(0)

\* ----------------------------------------------------------------- C2

\* the text of a femtosecond count: its fifteen digits without the
\* trailing zeros
RECURSIVE DropTrailingZeros(_)
DropTrailingZeros(d) ==
  IF d # <<>> /\ d[Len(d)] = 0 THEN DropTrailingZeros(SubSeq(d, 1, Len(d) - 1)) ELSE d

FractionText(v) ==
  LET d == DropTrailingZeros(Pad15(v)) IN [i \in 1..Len(d) |-> kDigits[d[i] + 1]]

\* C2: for every femtosecond count fs in [0, 10^15) the text format() writes
\* for %E*S or %E*f (the fifteen digits with the trailing zeros trimmed; "0"
\* for %E*f and no "." for %E*S when fs is zero) is parsed back by parse()
\* with the same specifier to exactly fs.
C2_RoundTripSubseconds ==
  RoundTripDone /\ fmt \in {RTStarS, RTStarF, StarS, StarF} =>
    /\ ret /\ fs_out = fs
    /\ fmt \in {RTStarS, RTStarF} => sec = tp
    /\ fmt = StarF => result = (IF fs = Wide(0) THEN <<"0">> ELSE FractionText(fs))
    /\ fmt = StarS =>
         result = Two(gen.cs.ss)
                    \o (IF fs = Wide(0) THEN <<>> ELSE <<".">> \o FractionText(fs))

C2_Witness ==
  /\ RoundTripDone /\ fmt = StarS /\ ret
  /\ fs = WideOfDigits(<<0, 0, 0, 1, 9, 0, 0, 0, 0, 0, 0, 0, 0, 0, 0>>) /\ fs_out = fs
  /\ result = <<"5", "9", ".", "0", "0", "0", "1", "9">>

\* ----------------------------------------------------- calls of format()

\* an instant to format: 2020-02-29 13:05:09 UTC
SomeInstant == CivilToInstant(civil_second(2020, 2, 29, 13, 5, 9))

FormatCall(k, g, f, off, fsv, pl) ==
  Call(k, g, f, <<>>, <<NUL>>, FixedZone(off, <<"X">>), SomeInstant, fsv, pl, "format")

\* the offset specifiers, on offsets of every shape within a day
OffsetFormats ==
  {<<"%", "z">>, <<"%", ":", "z">>, <<"%", ":", ":", "z">>, <<"%", ":", ":", ":", "z">>,
   <<"%", "E", "z">>, <<"%", "E", "*", "z">>}

Offsets ==
  {sg * (h * 3600 + m * 60 + sc) :
     sg \in {1, -1}, h \in {0, 1, 23}, m \in {0, 30, 59}, sc \in {0, 10, 45}}

InitOffset ==
  \E f \in OffsetFormats, off \in Offsets : FormatCall("offset", [off |-> off], f, off, Wide(0), "verbatim")

\* %E#S and %E#f for widths on both sides of 15, 18 and 1024
Widths ==
  {<<0>>, <<1>>, <<2>>, <<3>>, <<9>>, <<1, 4>>, <<1, 5>>, <<1, 6>>, <<1, 7>>, <<1, 8>>,
   <<1, 9>>, <<2, 0>>, <<1, 0, 0>>, <<1, 0, 2, 4>>, <<1, 0, 2, 5>>, <<2, 0, 0, 0>>,
   <<0, 0, 7>>}

WidthFs ==
  {Wide(0), Wide(1),
   WideOfDigits(<<1, 2, 3, 4, 5, 6, 7, 8, 9, 0, 1, 2, 3, 4, 5>>),
   WideOfDigits(<<9, 9, 9, 9, 9, 9, 9, 9, 9, 9, 9, 9, 9, 9, 9>>),
   WideOfDigits(<<0, 0, 0, 1, 9, 0, 0, 0, 0, 0, 0, 0, 0, 0, 0>>)}

\* the number a width's digits write
RECURSIVE DigitsValue(_)
DigitsValue(d) ==
  IF d = <<>> THEN 0 ELSE DigitsValue(SubSeq(d, 1, Len(d) - 1)) * 10 + d[Len(d)]

InitWidth ==
  \E w \in Widths, c \in {"S", "f"}, fsv \in WidthFs, pl \in Platforms :
    FormatCall("width", [n |-> DigitsValue(w), c |-> c],
               <<"%", "E">> \o [i \in 1..Len(w) |-> kDigits[w[i] + 1]] \o <<c>>,
               0, fsv, pl)

\* the longest format drawn for the runs of '%'
MaxFmtLen == 4

PercentAlphabet == {"%", "Y", "y", "-"}

InitPercent ==
  \E n \in 1..MaxFmtLen : \E f \in [1..n -> PercentAlphabet], pl \in Platforms :
    FormatCall("percent", [n |-> n], f, 0, Wide(0), pl)

\* format() on its own
InitFormat == InitOffset \/ InitWidth \/ InitPercent

NextFormat == DoFormat

SpecFormat == InitFormat /\ [][NextFormat]_vars

FormatDone(k) == pc = "done" /\ kind = k

\* ----------------------------------------------------------------- C3

\* the rows of the offset shape table, for %z, %:z, %::z and %:::z
TableFormats ==
  <<(<<"%", "z">>), (<<"%", ":", "z">>), (<<"%", ":", ":", "z">>),
    (<<"%", ":", ":", ":", "z">>)>>

TableOffsets == {0, 3600, -3600, 5400, 5445, -5445}

ClaimedRow(off) ==
  CASE off = 0 -> <<"+0000", "+00:00", "+00:00:00", "+00">>
    [] off = 3600 -> <<"+0100", "+01:00", "+01:00:00", "+01">>
    [] off = -3600 -> <<"-0100", "-01:00", "-01:00:00", "-01">>
    [] off = 5400 -> <<"+0130", "+01:30", "+01:30:00", "+01:30">>
    [] off = 5445 -> <<"+0130", "+01:30:45", "+01:30:45", "+01:30:45">>
    [] off = -5445 -> <<"-0130", "-01:30:45", "-01:30:45", "-01:30:45">>

AmendedRow(off) ==
  CASE off = 5445 -> <<"+0130", "+01:30", "+01:30:45", "+01:30:45">>
    [] off = -5445 -> <<"-0130", "-01:30", "-01:30:45", "-01:30:45">>
    [] OTHER -> ClaimedRow(off)

InTable == FormatDone("offset") /\ gen.off \in TableOffsets

\* C3 as stated: the offset shape table, in which %:z renders 5445 as
\* +01:30:45 and -5445 as -01:30:45.
C3_OffsetTableAsClaimed ==
  InTable => \A i \in 1..4 : fmt = TableFormats[i] => Join(result) = ClaimedRow(gen.off)[i]

\* C3, amended: the table holds with the %:z entries of 5445 and -5445 being
\* +01:30 and -01:30: %:z writes hours and minutes only, whatever the seconds.
C3_OffsetTable ==
  InTable => \A i \in 1..4 : fmt = TableFormats[i] => Join(result) = AmendedRow(gen.off)[i]

C3_Witness ==
  InTable /\ gen.off = -5445 /\ fmt = TableFormats[2] /\ Join(result) = "-01:30"

\* ----------------------------------------------------------------- C9

\* the n leading digits of fs * 1000 written in eighteen digits
WidthDigits(v, n) ==
  LET d == SubSeq(Pad15(v) \o <<0, 0, 0>>, 1, n) IN [i \in 1..n |-> kDigits[d[i] + 1]]

\* what %E#S or %E#f is to write when # digits are rendered
WidthText(c, n) ==
  (IF c = "S" THEN Two(9) ELSE <<>>)
    \o (IF n = 0 THEN <<>> ELSE (IF c = "S" THEN <<".">> ELSE <<>>) \o WidthDigits(fs, n))

\* C9 as stated: every width above 18 renders as 18 does; widths 1..18
\* render that many digits; width 0 renders the seconds alone, or nothing.
C9_WidthCapAnyWidth ==
  FormatDone("width") =>
    result = WidthText(gen.c, IF gen.n > 18 THEN 18 ELSE gen.n)

\* C9, amended: every width from 19 to 1024 renders as 18 does (eighteen
\* digits, fs * 1000); widths 1..18 render exactly that many digits, fs
\* scaled by 10^(#-15) and truncated; width 0 renders the two-digit seconds
\* alone for %E#S and nothing for %E#f.  A width above 1024 is not taken
\* as %E#S or %E#f at all.
C9_WidthCap ==
  FormatDone("width") /\ gen.n <= 1024 =>
    result = WidthText(gen.c, IF gen.n > 18 THEN 18 ELSE gen.n)

C9_Witness ==
  /\ FormatDone("width") /\ gen.n = 1024 /\ gen.c = "S"
  /\ Join(result) = "09.123456789012345000"

\* ---------------------------------------------------------------- C10

\* the length of the run of '%' that starts at i
RECURSIVE RunLength(_, _)
RunLength(f, i) == IF i <= Len(f) /\ f[i] = "%" THEN 1 + RunLength(f, i + 1) ELSE 0

\* The format as items read left to right: a character, a run of '%' that
\* pairs off entirely ("pairs"), and a run whose last '%' is left over,
\* either at the end of the format ("lone") or before the character that
\* it makes a specifier of ("spec").
RECURSIVE Items(_, _)
Items(f, i) ==
  IF i > Len(f) THEN <<>>
  ELSE IF f[i] # "%" THEN <<[t |-> "char", c |-> f[i], n |-> 0]>> \o Items(f, i + 1)
  ELSE LET n == RunLength(f, i)
       IN IF n % 2 = 0 THEN <<[t |-> "pairs", c |-> "", n |-> n \div 2]>> \o Items(f, i + n)
          ELSE IF i + n > Len(f) THEN <<[t |-> "lone", c |-> "", n |-> n \div 2]>>
          ELSE <<[t |-> "spec", c |-> f[i + n], n |-> n \div 2]>> \o Items(f, i + n + 1)

\* what the format is to produce for year 2020: one '%' for every pair, one
\* for a lone trailing '%', the year for %Y and its last two digits for %y
ItemText(it) ==
  Repeat("%", it.n)
    \o (CASE it.t = "char" -> <<it.c>>
          [] it.t = "pairs" -> <<>>
          [] it.t = "lone" -> <<"%">>
          [] it.t = "spec" -> IF it.c = "Y" THEN <<"2", "0", "2", "0">> ELSE <<"2", "0">>)

RECURSIVE ItemsText(_)
ItemsText(its) == IF its = <<>> THEN <<>> ELSE ItemText(Head(its)) \o ItemsText(Tail(its))

\* every specifier of the format is one the C library defines
AllSpecsDefined(its) == \A i \in 1..Len(its) : its[i].t = "spec" => its[i].c \in {"Y", "y"}

\* The format ends in a lone '%' while a specifier left to strftime (%y) is
\* still pending, so that the '%' is passed to strftime with it: "%" at the
\* end of a format is undefined in ISO C.
LoneLeftToStrftime(its) ==
  /\ its # <<>> /\ its[Len(its)].t = "lone"
  /\ \E i \in 1..Len(its) :
       /\ its[i].t = "spec" /\ its[i].c = "y"
       /\ \A j \in (i + 1)..Len(its) : ~(its[j].t = "spec" /\ its[j].c = "Y")

ParseCall(k, g, f, in, it, z) ==
  Call(k, g, f, in, it, z, SomeInstant, Wide(0), "verbatim", "parse")

ParseDone(k) == pc = "done" /\ kind = k

\* the zones parse() is given, and the bytes that may follow the input
Zones == {utc_time_zone, FixedZone(-5400, <<"X">>)}
Tails == {<<NUL>>, <<"7">>}

FmtYMD == <<"%", "Y", "-", "%", "m", "-", "%", "d">>
FmtMD == <<"%", "m", "-", "%", "d">>
FmtHM == <<"%", "H", ":", "%", "M">>
FmtHMS == <<"%", "H", ":", "%", "M", ":", "%", "S">>
FmtEz == <<"%", "E", "z">>

DateText(y, m, d) == IntText(y) \o <<"-">> \o Two(m) \o <<"-">> \o Two(d)

\* the days from 1970-01-01 to y-m-d, counted year by year and month by month
YearDays(y) == IF IsLeapYear(y) THEN 366 ELSE 365

RECURSIVE DaysToYear(_)
DaysToYear(y) ==
  IF y = 1970 THEN 0
  ELSE IF y > 1970 THEN DaysToYear(y - 1) + YearDays(y - 1)
  ELSE DaysToYear(y + 1) - YearDays(y)

RECURSIVE DaysToMonth(_, _)
DaysToMonth(y, m) == IF m = 1 THEN 0 ELSE DaysToMonth(y, m - 1) + DaysInMonth(y, m - 1)

DayNumber(y, m, d) == DaysToYear(y) + DaysToMonth(y, m) + d - 1

\* a text that the format matches in full, cut short after k characters
TruncTexts ==
  {[f |-> FmtYMD, text |-> DateText(2023, 9, 15)],
   [f |-> FmtYMD \o <<"T">> \o FmtHM,
    text |-> DateText(2023, 9, 15) \o <<"T", "1", "0", ":", "2", "0">>]}

InitTrunc ==
  \E c \in TruncTexts, it \in Tails, z \in Zones : \E k \in 0..Len(c.text) :
    ParseCall("trunc", [k |-> k, n |-> Len(c.text)], c.f, SubSeq(c.text, 1, k), it, z)

\* dates around the ends of the months, alone and with a time and an offset
YmdYears == {1900, 2000, 2023, 2024}
YmdDays == {1, 28, 29, 30, 31}

YmdShapes ==
  {[f |-> FmtYMD, year |-> TRUE, rest |-> <<>>, t |-> 0, has |-> FALSE, off |-> 0],
   [f |-> FmtMD, year |-> FALSE, rest |-> <<>>, t |-> 0, has |-> FALSE, off |-> 0],
   [f |-> FmtYMD \o <<"T">> \o FmtHM \o FmtEz, year |-> TRUE,
    rest |-> <<"T", "2", "3", ":", "3", "0", "-", "0", "1", ":", "0", "0">>,
    t |-> 84600, has |-> TRUE, off |-> -3600]}

InitYmd ==
  \E sh \in YmdShapes, y \in YmdYears, m \in 1..12, d \in YmdDays, z \in Zones :
    ParseCall("ymd",
              [y |-> IF sh.year THEN y ELSE 1970, m |-> m, d |-> d, t |-> sh.t,
               shift |-> IF sh.has THEN sh.off ELSE z.offset],
              sh.f,
              (IF sh.year THEN IntText(y) \o <<"-">> ELSE <<>>)
                \o Two(m) \o <<"-">> \o Two(d) \o sh.rest,
              <<NUL>>, z)

\* texts the format matches in full, with something before and after
TrailingBodies ==
  {[f |-> FmtYMD, body |-> DateText(2023, 9, 15), valid |-> TRUE],
   [f |-> FmtYMD, body |-> DateText(2023, 9, 31), valid |-> FALSE],
   [f |-> FmtHM, body |-> <<"1", "0", ":", "2", "0">>, valid |-> TRUE],
   [f |-> FmtHMS, body |-> <<"2", "3", ":", "5", "9", ":", "6", "0">>, valid |-> TRUE],
   [f |-> <<"%", "s">>, body |-> <<"8", "6", "4", "0", "0">>, valid |-> TRUE],
   [f |-> <<"%", "Y", " ", "%", "s">>, body |-> <<"1", "9", "9", "9", " ", "0">>,
    valid |-> TRUE],
   [f |-> FmtMD \o <<" ", "%", "s">>, body |-> <<"0", "2", "-", "3", "1", " ", "5">>,
    valid |-> TRUE]}

Leads == {<<>>, <<" ">>, <<"\t", " ">>}

Suffixes ==
  {<<>>, <<" ">>, <<" ", " ">>, <<"\t", "\n">>, <<"x">>, <<" ", "x">>, <<"x", " ">>,
   <<".">>, <<" ", "-">>, <<"%">>}

OnlySpaces(t) == \A i \in 1..Len(t) : IsSpace(t[i])

InitTrailing ==
  \E c \in TrailingBodies, lead \in Leads, sfx \in Suffixes, it \in Tails :
    ParseCall("trailing", [suffix |-> sfx, valid |-> c.valid], c.f,
              lead \o c.body \o sfx, it, utc_time_zone)

\* seconds of 59 and of 60, read by %S, %E*S and %E3S, with and without a
\* fraction and an offset
LeapSpecs ==
  {[s |-> <<"%", "S">>, fr |-> FALSE], [s |-> <<"%", "E", "*", "S">>, fr |-> TRUE],
   [s |-> <<"%", "E", "3", "S">>, fr |-> TRUE]}

LeapMinutes ==
  {[y |-> 2016, m |-> 12, d |-> 31, hh |-> 23, mm |-> 59],
   [y |-> 2023, m |-> 6, d |-> 15, hh |-> 10, mm |-> 20],
   [y |-> 2024, m |-> 2, d |-> 29, hh |-> 23, mm |-> 59]}

LeapFractions ==
  {[text |-> <<>>, fs |-> Wide(0)],
   [text |-> <<".", "5">>, fs |-> WideOfDigits(<<5>> \o Repeat(0, 14))],
   [text |-> <<".", "1", "2", "3">>, fs |-> WideOfDigits(<<1, 2, 3>> \o Repeat(0, 12))]}

LeapOffsets ==
  {[has |-> FALSE, v |-> 0, text |-> <<>>],
   [has |-> TRUE, v |-> 3600, text |-> <<"+", "0", "1", ":", "0", "0">>],
   [has |-> TRUE, v |-> -19800, text |-> <<"-", "0", "5", ":", "3", "0">>]}

InitLeap ==
  \E sp \in LeapSpecs, c \in LeapMinutes, ss \in {59, 60}, fr \in LeapFractions,
     off \in LeapOffsets, z \in Zones :
    /\ sp.fr \/ fr.text = <<>>
    /\ ParseCall("leap",
                 [c |-> c, ss |-> ss, fs |-> fr.fs, fr |-> fr.text # <<>>,
                  has |-> off.has, shift |-> IF off.has THEN off.v ELSE z.offset],
                 FmtYMD \o <<"T">> \o FmtHM \o <<":">> \o sp.s
                   \o (IF off.has THEN FmtEz ELSE <<>>),
                 DateText(c.y, c.m, c.d) \o <<"T">> \o Two(c.hh) \o <<":">> \o Two(c.mm)
                   \o <<":">> \o Two(ss) \o fr.text \o off.text,
                 <<NUL>>, z)

\* %s first, last and in the middle, among fields that finalization would
\* accept and fields that it would reject
UnixShapes ==
  {[f |-> <<"%", "s">>, pre |-> <<>>, post |-> <<>>],
   [f |-> <<"%", "Y", " ", "%", "s">>, pre |-> <<"1", "9", "9", "9", " ">>, post |-> <<>>],
   [f |-> <<"%", "s", " ", "%", "Y">>, pre |-> <<>>, post |-> <<" ", "1", "9", "9", "9">>],
   [f |-> FmtYMD \o <<" ", "%", "s">>, pre |-> DateText(2023, 9, 31) \o <<" ">>,
    post |-> <<>>],
   [f |-> <<"%", "s", " ">> \o FmtHMS \o FmtEz, pre |-> <<>>,
    post |-> <<" ", "2", "3", ":", "5", "9", ":", "6", "0", "+", "0", "1", ":", "0", "0">>],
   [f |-> FmtMD \o <<" ", "%", "s", ".", "%", "E", "*", "f">>,
    pre |-> <<"0", "2", "-", "3", "0", " ">>, post |-> <<".", "2", "5">>]}

UnixValues ==
  {0, 1, -1, 86399, 86400, -86400, -86401, 1582981509, 2147483647, -2147483647}

InitUnix ==
  \E sh \in UnixShapes, n \in UnixValues, it \in Tails, z \in Zones :
    ParseCall("unix", [n |-> n], sh.f, sh.pre \o IntText(n) \o sh.post, it, z)

\* formats that end right after %E or %O, and offsets that end the input
\* right after their hours or their minutes; the byte that follows the input
\* in memory may be the separator
SentinelFormats ==
  {<<"%", "E">>, <<"%", "O">>, <<"x", "%", "E">>, <<"%", "H", "%", "O">>, FmtEz,
   <<"%", "z">>, <<"%", ":", "z">>, <<"%", "E", "*", "f">>, <<"%", "H", "%", "E", "z">>}

SentinelInputs ==
  {<<"+", "0", "1">>, <<"+", "0", "1", ":">>, <<"-", "0", "1", "3", "0">>,
   <<"+", "0", "1", ":", "3", "0">>, <<"+", "0", "1", ":", "3", "0", ":", "1", "5">>,
   <<"x", "1">>, <<"5">>, <<"0", "9", "+", "0", "1">>, <<"0", "9", "Z">>, <<"Z">>}

SentinelTails == Tails \cup {<<":">>, <<":", "3", "0">>}

InitSentinel ==
  \E f \in SentinelFormats, in \in SentinelInputs, it \in SentinelTails, z \in Zones :
    ParseCall("sentinel", [n |-> Len(in)], f, in, it, z)

InitParse == InitTrunc \/ InitYmd \/ InitTrailing \/ InitLeap \/ InitUnix \/ InitSentinel

NextParse == DoParse

SpecParse == InitParse /\ [][NextParse]_vars

\* the format walk of the call, as parse() leaves it when the loop ends
Walk ==
  LET ib == Buf(input, itail)
  IN ParseWalk(Buf(fmt, ftail), ib, ParseLocals(SkipSpaces(ib, 1, RangeEnd(ib))))

\* input left after the walk and the final whitespace strip
InputLeft ==
  LET ib == Buf(input, itail) IN SkipSpaces(ib, Walk.ipos, RangeEnd(ib)) # RangeEnd(ib)

\* ----------------------------------------------------------------- C4

\* C4 as stated: parse fails with a diagnostic whenever the input is
\* exhausted while the format still holds a specifier that needs digits or a
\* literal that must match: no proper prefix of a text the format matches
\* in full is accepted, so %Y-%m-%d rejects 2023 and the empty input.
C4_ExhaustedInputRejected ==
  ParseDone("trunc") /\ gen.k < gen.n => ~ret /\ err # Unset.err

\* %Y-%m-%d accepts the input 2023, as 2023-01-01 00:00:00 of the zone
C4_Witness ==
  /\ ParseDone("trunc") /\ fmt = FmtYMD /\ Join(input) = "2023" /\ tz = utc_time_zone
  /\ ret /\ sec = Instant(19358, 0) /\ err = Unset.err

\* ----------------------------------------------------------------- C5

\* C5: whenever parse returns true the walk has consumed the input up to
\* trailing whitespace; and when a text the format matches in full is
\* followed by anything other than whitespace, parse returns false with
\* "Illegal trailing data in input string", whether or not the text holds a
\* %s field or a date that finalization rejects.  With only whitespace
\* after it the text is accepted iff its fields are.
C5_TrailingData ==
  /\ pc = "done" /\ kind \in {"trunc", "ymd", "trailing", "leap", "unix"} /\ ret
       => ~InputLeft
  /\ ParseDone("trailing") =>
       IF OnlySpaces(gen.suffix) THEN ret = gen.valid
       ELSE ~ret /\ err = "Illegal trailing data in input string"
            /\ sec = Unset.sec /\ fs_out = Unset.fs

C5_Witness ==
  /\ ParseDone("trailing") /\ Join(input) = " 02-31 5 x" /\ ~ret
  /\ err = "Illegal trailing data in input string"

\* ----------------------------------------------------------------- C6

\* C6: a seconds field of 60, read by %S, %E*S or %E3S, is accepted and
\* yields the instant one second after the same civil time with seconds 59,
\* with zero subseconds whatever fraction was read, with and without a
\* parsed offset; a seconds field of 59 keeps its fraction.
C6_LeapSecond ==
  ParseDone("leap") =>
    LET c == gen.c
        at59 == InstantPlus(Instant(DayNumber(c.y, c.m, c.d), c.hh * 3600 + c.mm * 60 + 59),
                            -gen.shift)
    IN /\ ret
       /\ sec = IF gen.ss = 60 THEN InstantPlus(at59, 1) ELSE at59
       /\ fs_out = IF gen.ss = 60 THEN Wide(0) ELSE gen.fs

C6_Witness ==
  /\ ParseDone("leap") /\ Join(input) = "2016-12-31T23:59:60.5+01:00"
  /\ ret /\ sec = Instant(17166, 82800) /\ fs_out = Wide(0)

\* ----------------------------------------------------------------- C7

\* C7: a day that the month of the year does not have (2023-09-31,
\* 2023-02-29) makes parse return false with "Out-of-range field", the date
\* not rolled into the next month; a day that the month has (2024-02-29) is
\* accepted as that date.
C7_DayMonthRejected ==
  ParseDone("ymd") =>
    IF gen.d <= DaysInMonth(gen.y, gen.m)
    THEN /\ ret
         /\ sec = InstantPlus(Instant(DayNumber(gen.y, gen.m, gen.d), gen.t), -gen.shift)
    ELSE ~ret /\ err = "Out-of-range field" /\ sec = Unset.sec

C7_Witness ==
  /\ ParseDone("ymd") /\ Join(input) = "2023-09-31" /\ ~ret
  /\ err = "Out-of-range field"

\* ----------------------------------------------------------------- C8

\* C8: when the walk read a %s field and the input was consumed, parse
\* returns true with FromUnixSeconds of that value and zero subseconds,
\* wherever %s stands in the format and whatever the other fields hold: a
\* date no month has, a leap second, an offset, a fraction.
C8_PercentSOverride ==
  ParseDone("unix") =>
    /\ Walk.saw_percent_s /\ ~InputLeft
    /\ ret /\ sec = Instant(gen.n \div 86400, gen.n % 86400) /\ fs_out = Wide(0)

C8_Witness ==
  /\ ParseDone("unix") /\ Join(input) = "2023-09-31 -1" /\ ret
  /\ sec = Instant(-1, 86399) /\ fs_out = Wide(0)

\* ----------------------------------------------------------------- C15

\* C15 as stated: parse and its helpers never read the character at a cursor
\* equal to the end sentinel of the format range or of the input range, also
\* when the format ends right after %E or %O and when the input ends right
\* after the hour or minute digits of an offset.
C15_NoReadAtSentinel == pc = "done" /\ kind # "roundtrip" => ~Walk.oob

\* %Ez on "+01": the offset is accepted after *hours_end was read at the end
\* of the input
C15_Witness ==
  /\ ParseDone("sentinel") /\ fmt = FmtEz /\ Join(input) = "+01" /\ itail = <<NUL>>
  /\ tz = utc_time_zone /\ Walk.oob /\ ret /\ sec = Instant(-1, 82800)

\* ----------------------------------------------------------------- C16

Diagnostics ==
  {"Failed to parse input", "Illegal trailing data in input string", "Out-of-range field",
   "Out-of-range year"}

\* 0 <= v < 10^15 for a wide value v
IsFemtoFraction(v) == ~v.neg /\ Len(v.mag) <= 15

\* C16: when parse returns false the instant and the femtoseconds hold what
\* they held before the call and err is one of the four fixed diagnostics;
\* when it returns true both hold what parse wrote, the femtoseconds lie in
\* [0, 10^15), and err holds what it held before the call.
C16_Frame ==
  pc = "done" /\ kind # "roundtrip" =>
    IF ret
    THEN sec # Unset.sec /\ fs_out # Unset.fs /\ IsFemtoFraction(fs_out)
           /\ err = Unset.err
    ELSE sec = Unset.sec /\ fs_out = Unset.fs /\ err \in Diagnostics

\* a date finalization rejects, after every field was read and stored
C16_Witness ==
  /\ ParseDone("ymd") /\ Join(input) = "2023-09-31" /\ ~ret
  /\ err = "Out-of-range field" /\ sec = Unset.sec /\ fs_out = Unset.fs

\* ------------------------------------------------- the helpers on their own

\* a call of a helper on the text in, followed in memory by it
HelperCall(k, g, in, it, p) ==
  Call(k, g, <<>>, in, it, utc_time_zone, SomeInstant, Wide(0), "verbatim", p)

HelperDone(k) == pc = "done" /\ kind = k

\* what *offset holds before ParseOffset is called
OldOffset == 77

\* ParseOffset is called on the whole of the input
DoParseOffset ==
  /\ pc = "ParseOffset"
  /\ out' = ParseOffset(Buf(input, itail), 1, Len(input) + 1, gen.mode, OldOffset)
  /\ pc' = "done"
  /\ UNCHANGED <<kind, gen, fmt, ftail, input, itail, tz, tp, fs, platform, result, ret,
                 sec, fs_out, err>>

\* offsets as texts: a first character, hours, minutes and seconds of zero,
\* one or two digits, in and out of range, with and without separators, and
\* something after them
OffsetFirsts == {<<"+">>, <<"-">>, <<"Z">>, <<"x">>, <<>>}
OffsetHourTexts == {<<>>, <<"1">>, <<"0", "0">>, <<"0", "1">>, <<"2", "3">>, <<"2", "4">>}
OffsetPartTexts == {<<>>, <<"5">>, <<"3", "0">>, <<"5", "9">>, <<"6", "0">>}
OffsetSeps == {<<>>, <<":">>}
OffsetRests == {<<>>, <<"x">>}
OffsetModes == {<<>>, <<":">>}

InitOffsetText ==
  \E f \in OffsetFirsts, h \in OffsetHourTexts, s1 \in OffsetSeps, m \in OffsetPartTexts,
     s2 \in OffsetSeps, sc \in OffsetPartTexts, r \in OffsetRests, mode \in OffsetModes :
    HelperCall("offsettext", [mode |-> mode], f \o h \o s1 \o m \o s2 \o sc \o r,
               <<NUL>>, "ParseOffset")

\* ----------------------------------------------------------------- C11

\* the character of the text t at p, NUL past its end
CharAt(t, p) == IF p >= 1 /\ p <= Len(t) THEN t[p] ELSE NUL

\* two digits at p of t that write a number up to max
TwoDigitsAt(t, p, max) ==
  /\ IsDigit(CharAt(t, p)) /\ IsDigit(CharAt(t, p + 1))
  /\ DigitVal(CharAt(t, p)) * 10 + DigitVal(CharAt(t, p + 1)) <= max

TwoDigitsValue(t, p) == DigitVal(CharAt(t, p)) * 10 + DigitVal(CharAt(t, p + 1))

\* where a component after the cursor p starts: past the separator, if the
\* mode has one and it stands at p
PastSep(t, p, sep) == IF sep # NUL /\ CharAt(t, p) = sep THEN p + 1 ELSE p

\* The offset a text decodes to as the claim reads it: Z, or a sign and two
\* hour digits, then minutes and then seconds, each counted and consumed
\* (with the separator before it) only if it is two digits in range.
DecodedOffset(t, sep) ==
  LET sign == IF CharAt(t, 1) = "-" THEN -1 ELSE 1
      mp == PastSep(t, 4, sep)
      haveM == TwoDigitsAt(t, mp, 59)
      sp == PastSep(t, mp + 2, sep)
      haveS == haveM /\ TwoDigitsAt(t, sp, 59)
      hh == TwoDigitsValue(t, 2)
      mm == IF haveM THEN TwoDigitsValue(t, mp) ELSE 0
      ss == IF haveS THEN TwoDigitsValue(t, sp) ELSE 0
  IN IF CharAt(t, 1) = "Z" THEN [ok |-> TRUE, pos |-> 2, offset |-> 0]
     ELSE IF CharAt(t, 1) \notin {"+", "-"} \/ ~TwoDigitsAt(t, 2, 23)
     THEN [ok |-> FALSE, pos |-> 0, offset |-> OldOffset]
     ELSE [ok |-> TRUE,
           pos |-> IF haveS THEN sp + 2 ELSE IF haveM THEN mp + 2 ELSE 4,
           offset |-> sign * (hh * 3600 + mm * 60 + ss)]

\* C11: ParseOffset accepts Z as 0, otherwise requires a sign and exactly
\* two hour digits 00..23; minutes and seconds count only if they are
\* exactly two digits 00..59; on success the offset is
\* sign * (HH*3600 + MM*60 + SS) of exactly the components consumed, and the
\* cursor returned is just past the last of them, no separator being
\* consumed without the component after it.
C11_OffsetDecode ==
  HelperDone("offsettext") =>
    LET d == DecodedOffset(input, ModeAt(gen.mode, 0))
    IN out.ok = d.ok /\ out.pos = d.pos /\ out.offset = d.offset

\* +01:5 under mode ":" decodes to 1 h 5 min, the cursor left after the ':'
C11_Witness ==
  /\ HelperDone("offsettext") /\ Join(input) = "+01:5" /\ gen.mode = <<":">>
  /\ out.ok /\ out.offset = 3900 /\ out.pos = 5

\* ------------------------------------------------- FormatTM on its own

\* FormatTM is called on the sub-format fmt, with *out holding gen.prefix
DoFormatTM ==
  /\ pc = "FormatTM"
  /\ out' = FormatTM(gen.prefix, fmt, ToTM(LookupInstant(tz, tp)), platform)
  /\ pc' = "done"
  /\ UNCHANGED <<kind, gen, fmt, ftail, input, itail, tz, tp, fs, platform, result, ret,
                 sec, fs_out, err>>

\* sub-formats that render at 1/2 to 18 times their own length, or not at all
TMFormats ==
  {<<"%", "c">>, <<"%", "c", "%", "c">>, <<"x", "%", "c">>, <<"%", "D">>, <<"%", "y">>,
   <<"a", "b">>, <<"%", "Q">>, <<"%", "%">>, <<"%", "D", "%", "c">>}

\* a Saturday in February, a Friday in May, a Wednesday in September
TMInstants ==
  {SomeInstant, CivilToInstant(civil_second(2020, 5, 1, 0, 0, 0)),
   CivilToInstant(civil_second(2020, 9, 9, 23, 59, 59))}

TMPlatforms == {"verbatim", "fail", "long"}

TMPrefixes == {<<>>, <<"p">>, <<"2", "0">>}

InitFormatTM ==
  \E f \in TMFormats, t \in TMInstants, pl \in TMPlatforms, pre \in TMPrefixes :
    Call("formattm", [prefix |-> pre], f, <<>>, <<NUL>>, utc_time_zone, t, Wide(0), pl,
         "FormatTM")

\* what strftime renders of fmt, whatever the size of the buffer
TMText == StrftimeText(fmt, 1, ToTM(LookupInstant(tz, tp)), platform, <<>>)

\* the multiple of the format's length at which strftime first returns a
\* length other than zero, among the sizes tried; 0 if at none of them
FirstFit(sizes) ==
  LET fits == {k \in sizes : TMText.ok /\ Len(TMText.text) # 0
                               /\ Len(TMText.text) + 1 <= Len(fmt) * k}
  IN IF fits = {} THEN 0 ELSE CHOOSE k \in fits : \A j \in fits : k <= j

\* C12 as stated: FormatTM tries the buffer sizes 2x, 4x, 8x, 16x and 32x
\* the length of the sub-format, appends the rendered bytes once at the first
\* size strftime accepts, and appends nothing if every size fails.
C12_RetryThrough32 ==
  HelperDone("formattm") =>
    out = IF FirstFit({2, 4, 8, 16, 32}) # 0 THEN gen.prefix \o TMText.text ELSE gen.prefix

\* FormatTM has returned from "%c" in the locale of full names, whose 34
\* bytes and terminator fit in 64 = 32 x 2 bytes and not in 32 = 16 x 2
C12_Witness ==
  /\ HelperDone("formattm") /\ fmt = <<"%", "c">> /\ platform = "long"
  /\ tp = SomeInstant /\ gen.prefix = <<"p">>
  /\ Join(TMText.text) = "Saturday 29 February 2020 13:05:09"
  /\ FirstFit({2, 4, 8, 16}) = 0 /\ FirstFit({32}) = 32
  /\ out = <<"p">>

\* --------------------------------------------- FormatOffset on its own

\* FormatOffset is called on gen.off and gen.mode
DoFormatOffset ==
  /\ pc = "FormatOffset"
  /\ out' = FormatOffset(gen.off, gen.mode)
  /\ pc' = "done"
  /\ UNCHANGED <<kind, gen, fmt, ftail, input, itail, tz, tp, fs, platform, result, ret,
                 sec, fs_out, err>>

\* the modes format() passes: %z, %:z and %Ez, %::z and %E*z, %:::z
FormatOffsetModes == {<<>>, <<":">>, <<":", "*">>, <<":", "*", ":">>}

\* every offset within two minutes of zero, and hours, minutes and seconds
\* at both ends of their ranges, of both signs
SignOffsets ==
  (-130..130) \cup {sg * (h * 3600 + m * 60 + sc) :
                      sg \in {1, -1}, h \in {0, 1, 23}, m \in {0, 1, 59}, sc \in {0, 1, 59}}

InitFormatOffset ==
  \E off \in SignOffsets, mode \in FormatOffsetModes :
    HelperCall("offsetsign", [off |-> off, mode |-> mode], <<>>, <<NUL>>, "FormatOffset")

\* ----------------------------------------------------------------- C13

\* the digits of a rendered offset, without sign and separators
RenderedDigits(text) == SelectSeq(text, IsDigit)

\* the seconds are not rendered, and the hours and the minutes are both
\* rendered as 00
RendersZeroHM(text) ==
  /\ Len(RenderedDigits(text)) = 4
  /\ RenderedDigits(text) = <<"0", "0", "0", "0">>

\* C13: when FormatOffset does not render the seconds and renders both the
\* hours and the minutes as 00, the sign is '+'; in every other case the sign
\* is '-' exactly when the offset is negative.
C13_SignRule ==
  HelperDone("offsetsign") =>
    out[1] = IF RendersZeroHM(out) THEN "+" ELSE IF gen.off < 0 THEN "-" ELSE "+"

\* -10 s is rendered as +00:00 by %:z
C13_Witness ==
  /\ HelperDone("offsetsign") /\ gen.off = -10 /\ gen.mode = <<":">>
  /\ Join(out) = "+00:00"

\* ------------------------------------------------- ParseInt on its own

\* what *vp holds before ParseInt is called
OldValue == 77

\* ParseInt<int> is called on the whole of the input
DoParseInt ==
  /\ pc = "ParseInt"
  /\ out' = ParseInt(Buf(input, itail), 1, Len(input) + 1, gen.width, gen.min, gen.max,
                     "int", OldValue)
  /\ pc' = "done"
  /\ UNCHANGED <<kind, gen, fmt, ftail, input, itail, tz, tp, fs, platform, result, ret,
                 sec, fs_out, err>>

\* digits: none, zeros, short numbers, and numbers on both sides of the
\* limits of int (2147483647 and -2147483648)
IntDigitTexts ==
  {<<>>, <<"0">>, <<"0", "0">>, <<"7">>, <<"1", "2">>, <<"2", "4">>, <<"0", "0", "7">>,
   <<"9", "9", "9">>, <<"1", "0", "0", "0", "0">>,
   <<"2", "1", "4", "7", "4", "8", "3", "6", "4">>,
   <<"2", "1", "4", "7", "4", "8", "3", "6", "5">>,
   <<"2", "1", "4", "7", "4", "8", "3", "6", "4", "7">>,
   <<"2", "1", "4", "7", "4", "8", "3", "6", "4", "8">>,
   <<"2", "1", "4", "7", "4", "8", "3", "6", "4", "9">>,
   <<"2", "1", "4", "7", "4", "8", "3", "6", "5", "0">>,
   <<"0", "2", "1", "4", "7", "4", "8", "3", "6", "4", "8">>,
   <<"9", "9", "9", "9", "9", "9", "9", "9", "9", "9">>,
   <<"2", "1", "4", "7", "4", "8", "3", "6", "4", "8", "0">>}

IntSigns == {<<>>, <<"-">>, <<"+">>}

IntRests == {<<>>, <<"x">>, <<"-", "1">>}

IntWidths == {0, 1, 2, 3, 4, 10, 11}

\* the [min, max] of the callers, and the whole of int
IntRanges == {<<0, 23>>, <<1, 12>>, <<0, 1024>>, <<-999, 9999>>, <<IntMin, IntMax>>}

InitParseInt ==
  \E sg \in IntSigns, d \in IntDigitTexts, r \in IntRests, w \in IntWidths,
     rg \in IntRanges :
    HelperCall("int", [width |-> w, min |-> rg[1], max |-> rg[2]], sg \o d \o r,
               <<NUL>>, "ParseInt")

\* ----------------------------------------------------------------- C14

\* how many digits of t follow position p - 1, up to cap of them (cap < 0: no cap)
RECURSIVE DigitRun(_, _, _)
DigitRun(t, p, cap) ==
  IF cap = 0 \/ ~IsDigit(CharAt(t, p)) THEN 0 ELSE 1 + DigitRun(t, p + 1, cap - 1)

\* a digit text without its leading zeros
RECURSIVE Significant(_)
Significant(d) ==
  IF d # <<>> /\ Head(d) = "0" THEN Significant(Tail(d)) ELSE d

\* d <= e for two digit texts of one length
RECURSIVE DigitsLeq(_, _)
DigitsLeq(d, e) ==
  IF d = <<>> THEN TRUE
  ELSE IF DigitVal(Head(d)) # DigitVal(Head(e)) THEN DigitVal(Head(d)) < DigitVal(Head(e))
  ELSE DigitsLeq(Tail(d), Tail(e))

\* minus the number a digit text of up to ten significant digits writes
RECURSIVE MinusValue(_, _)
MinusValue(d, acc) ==
  IF d = <<>> THEN acc ELSE MinusValue(Tail(d), acc * 10 - DigitVal(Head(d)))

\* whether the number written by the sign and the digits d is an int
FitsInt(neg, d) ==
  LET m == Significant(d)
  IN \/ Len(m) < 10
     \/ /\ Len(m) = 10
        /\ DigitsLeq(m, <<"2", "1", "4", "7", "4", "8", "3", "6", "4",
                          IF neg THEN "8" ELSE "7">>)

\* the decode of the text t as the claim words it: an optional '-', up to
\* width digits (the '-' counted in), at least one digit, the value in range
DecodedInt(t, width, min, max, zeroRule) ==
  LET neg == CharAt(t, 1) = "-"
      first == IF neg THEN 2 ELSE 1
      cap == IF width = 0 THEN -1 ELSE IF neg THEN width - 1 ELSE width
      n == DigitRun(t, first, cap)
      d == SubSeq(t, first, first + n - 1)
      fail == [ok |-> FALSE, pos |-> 0, val |-> OldValue]
  IN IF n = 0 \/ ~FitsInt(neg, d) THEN fail
     ELSE LET mv == MinusValue(Significant(d), 0)
              value == IF neg THEN mv ELSE -mv
          IN IF ~(min <= value /\ value <= max) THEN fail
             ELSE IF zeroRule /\ neg /\ value = 0 THEN fail
             ELSE [ok |-> TRUE, pos |-> first + n, val |-> value]

\* C14 as stated: ParseInt succeeds exactly when at least one digit was
\* consumed and the signed value of the consumed text lies in [min, max].
C14_IntDecodeAsStated ==
  HelperDone("int") => out = DecodedInt(input, gen.width, gen.min, gen.max, FALSE)

\* C14: ParseInt reads an optional '-' and up to width digits (the '-'
\* counted against a positive width, 0 for no cap); it succeeds exactly when
\* at least one digit was consumed, the consumed text is not a negative zero,
\* and its signed value lies in [min, max]; it then writes the value and
\* returns the cursor just past the last digit, and otherwise fails and
\* leaves *vp alone. Every intermediate value is an int.
C14_IntDecode ==
  HelperDone("int") => out = DecodedInt(input, gen.width, gen.min, gen.max, TRUE)

\* the minimum of int is decoded, with a character left after it
C14_Witness ==
  /\ HelperDone("int") /\ Join(input) = "-2147483648x" /\ gen.width = 0
  /\ gen.min = IntMin /\ out.ok /\ out.val = IntMin /\ out.pos = 12

InitHelpers == InitOffsetText \/ InitFormatTM \/ InitFormatOffset \/ InitParseInt

NextHelpers == DoParseOffset \/ DoFormatTM \/ DoFormatOffset \/ DoParseInt

SpecHelpers == InitHelpers /\ [][NextHelpers]_vars

====
